---- MODULE Spec2Model ----
(***************************************************************************)
(* Model of the highlight pipeline of ai-clip-cutter:                      *)
(*   TranscriptionAnalyzer._fix_highlight_timestamps / _extract_highlights *)
(*   / get_highlights, and main.py's orchestration.                        *)
(* Strings are sequences of one-character strings.  Times are integers     *)
(* (hundredths of a second), so 56.62 s is 5662.                           *)
(* Further: VideoProcessor's captions (_split_subtitle, extract_subtitles, *)
(* the trimming of process_video), where times are floats with a short     *)
(* mantissa, and its layout (_crop_to_aspect_ratio, the full and the split *)
(* frame, _get_random_additional_video).                                   *)
(***************************************************************************)
EXTENDS Integers, Sequences, FiniteSets, TLC

VARIABLES
  pc,                     \* position of the modelled call or run
  original_transcription, \* list of segments [text, start, end]
  highlight,              \* the dict handed to _fix_highlight_timestamps
  fixed,                  \* what _fix_highlight_timestamps returned
  reply,                  \* what the completion service answered
  outcome,                \* what get_highlights returned or raised
  api_key,                \* MISTRAL_API is set in the environment
  download,               \* config.download
  events,                 \* external work done so far, in order
  errors,                 \* kinds of error raised so far
  exit_code,              \* process exit status (-1 while running)
  highlights,             \* list handed to process_highlights
  idx,                    \* enumerate index of process_highlights
  segments,               \* result['segments'] of the caption transcription
  subtitles,              \* what extract_subtitles returned
  trimmed_subtitles,      \* the captions process_video keeps
  start_time,             \* process_video's start_time
  end_time,               \* process_video's end_time
  use_additional_video,   \* process_video's use_additional_video
  main_size,              \* (width, height) of the main clip
  additional_size,        \* (width, height) of the auxiliary clip
  additional_duration,    \* duration of the auxiliary clip
  clip_duration,          \* duration asked of the auxiliary clip
  random_start,           \* offset drawn in _get_random_additional_video
  final_video,            \* the composed frame
  files,                  \* names of the files that exist on disk
  created,                \* names of the files the operation wrote so far
  add_subtitles,          \* process_video's add_subtitles
  subtitle_position,      \* process_video's subtitle_position
  text_position,          \* what _calculate_subtitle_position returned
  now,                    \* the wall clock, in whole seconds
  output_filename,        \* what _generate_output_filename returned
  writes                  \* the output files written so far, in order

fixVars == <<highlight, fixed>>
runVars == <<api_key, download, events, errors, exit_code, highlights, idx>>
captionVars == <<segments, subtitles, trimmed_subtitles, start_time, end_time>>
layoutVars == <<use_additional_video, main_size, additional_size,
                additional_duration, clip_duration, random_start, final_video>>
outputVars == <<files, created, add_subtitles, subtitle_position,
                text_position, now, output_filename, writes>>
renderVars == <<captionVars, layoutVars, outputVars>>
vars == <<pc, original_transcription, fixVars, reply, outcome, runVars,
          renderVars>>

----------------------------------------------------------------------------
(* Bounds of the model *)

MaxContentLen == 4
MaxSegments == 2
MaxHighlights == 2

----------------------------------------------------------------------------
(* Characters and strings *)

Terminators == {".", "!", "?"}
Whitespace == {" ", "\t", "\n"}

\* str.strip(): cut the whitespace before the first and after the last
\* character that is no whitespace
Strip(s) ==
  LET keep == {i \in 1..Len(s) : s[i] \notin Whitespace}
  IN  IF keep = {} THEN <<>>
      ELSE SubSeq(s, CHOOSE i \in keep : \A j \in keep : i <= j,
                     CHOOSE i \in keep : \A j \in keep : i >= j)

\* a match of (?<=[.!?])\s+ starts at i: whitespace directly after a terminator
MatchStart(s, i) ==
  i > 1 /\ s[i] \in Whitespace /\ s[i - 1] \in Terminators

\* the last index of the whitespace run that starts at i (\s+ is greedy)
RunEnd(s, i) ==
  CHOOSE j \in i..Len(s) :
    /\ \A k \in i..j : s[k] \in Whitespace
    /\ j = Len(s) \/ s[j + 1] \notin Whitespace

\* re.split(r'(?<=[.!?])\s+', s) from index from on: the pieces between the
\* matches, found left to right
RECURSIVE SplitFrom(_, _)
SplitFrom(s, from) ==
  LET starts == {i \in from..Len(s) : MatchStart(s, i)}
  IN  IF starts = {} THEN <<SubSeq(s, from, Len(s))>>
      ELSE LET c == CHOOSE i \in starts : \A j \in starts : i <= j
           IN  <<SubSeq(s, from, c - 1)>> \o SplitFrom(s, RunEnd(s, c) + 1)

ReSplit(s) == SplitFrom(s, 1)

\* [s for s in sentences if s]
RECURSIVE NonEmpty(_)
NonEmpty(ss) ==
  IF ss = <<>> THEN <<>>
  ELSE IF Head(ss) = <<>> THEN NonEmpty(Tail(ss))
  ELSE <<Head(ss)>> \o NonEmpty(Tail(ss))

Sentences(content) == NonEmpty(ReSplit(Strip(content)))

\* Python's  sub in text  on strings
Contains(text, sub) ==
  \E k \in 0..(Len(text) - Len(sub)) : SubSeq(text, k + 1, k + Len(sub)) = sub

----------------------------------------------------------------------------
(* JSON values and dicts *)

Num(n) == [kind |-> "num", num |-> n, str |-> <<>>]
Str(s) == [kind |-> "str", num |-> 0, str |-> s]
Null == [kind |-> "null", num |-> 0, str |-> <<>>]

Digits == <<"0", "1", "2", "3", "4", "5", "6", "7", "8", "9">>

DigitValue(c) == (CHOOSE i \in 1..Len(Digits) : Digits[i] = c) - 1

IsDigits(s) == s # <<>> /\ \A i \in 1..Len(s) : \E j \in 1..Len(Digits) : Digits[j] = s[i]

RECURSIVE ParseDigits(_)
ParseDigits(s) ==
  IF s = <<>> THEN 0
  ELSE ParseDigits(SubSeq(s, 1, Len(s) - 1)) * 10 + DigitValue(s[Len(s)])

\* float(v): a number is kept, a string of digits is parsed, any other string
\* is a ValueError and None a TypeError
Float(v) ==
  CASE v.kind = "num" -> [err |-> "none", num |-> v.num]
    [] v.kind = "str" ->
         IF IsDigits(Strip(v.str))
           THEN [err |-> "none", num |-> ParseDigits(Strip(v.str))]
           ELSE [err |-> "ValueError", num |-> 0]
    [] OTHER -> [err |-> "TypeError", num |-> 0]

\* d[k] = v  on a dict
DictSet(d, k, v) ==
  [x \in (DOMAIN d) \cup {k} |-> IF x = k THEN v ELSE d[x]]

----------------------------------------------------------------------------
(* TranscriptionAnalyzer._fix_highlight_timestamps *)

\* the for loop over original_transcription: s and e are the indices of
\* start_segment and end_segment (0 for None), i the next segment
RECURSIVE ScanSegments(_, _, _, _, _, _)
ScanSegments(transcription, first_sentence, last_sentence, i, s, e) ==
  IF i > Len(transcription) THEN <<s, e>>
  ELSE
    LET text == transcription[i].text
        s2 == IF Contains(text, first_sentence) /\ s = 0 THEN i ELSE s
        e2 == IF Contains(text, last_sentence) THEN i ELSE e
    IN  IF s2 # 0 /\ e2 # 0
          THEN <<s2, e2>>
          ELSE ScanSegments(transcription, first_sentence, last_sentence,
                            i + 1, s2, e2)

\* UpdateTimestamps with the end taken from the wrong key of end_segment
UpdateTimestamps_EndFromStart(h, transcription, anchors) ==
  LET h1 == IF anchors[1] # 0
              THEN DictSet(h, "start", Num(transcription[anchors[1]].start))
              ELSE h
  IN  IF anchors[2] # 0
        THEN DictSet(h1, "end", Num(transcription[anchors[2]].start))
        ELSE h1

\* UpdateTimestamps that resets a boundary for which no anchor was found
UpdateTimestamps_ResetMissing(h, transcription, anchors) ==
  LET h1 == DictSet(h, "start",
                    IF anchors[1] # 0
                      THEN Num(transcription[anchors[1]].start) ELSE Num(0))
  IN  DictSet(h1, "end",
              IF anchors[2] # 0
                THEN Num(transcription[anchors[2]].end) ELSE Num(0))

\* the two "Update timestamps if matches were found" assignments
UpdateTimestamps(h, transcription, anchors) ==
  LET h1 == IF anchors[1] # 0
              THEN DictSet(h, "start",
                           Num(Float(Num(transcription[anchors[1]].start)).num))
              ELSE h
  IN  IF anchors[2] # 0
        THEN DictSet(h1, "end",
                     Num(Float(Num(transcription[anchors[2]].end)).num))
        ELSE h1

\* result: err is "none" or the exception raised, highlight the returned dict
fix_highlight_timestamps(h, transcription) ==
  IF "content" \notin DOMAIN h THEN [err |-> "KeyError", highlight |-> h]
  ELSE IF h["content"].kind # "str"
    THEN [err |-> "AttributeError", highlight |-> h]
  ELSE
    LET sentences == Sentences(h["content"].str)
    IN  IF sentences = <<>> THEN [err |-> "none", highlight |-> h]
        ELSE
          LET first_sentence == sentences[1]
              last_sentence == sentences[Len(sentences)]
              anchors == ScanSegments(transcription, first_sentence,
                                      last_sentence, 1, 0, 0)
          IN  [err |-> "none",
               highlight |-> UpdateTimestamps(h, transcription, anchors)]

----------------------------------------------------------------------------
(* TranscriptionAnalyzer._extract_highlights and get_highlights *)

\* An element of the parsed response: a dict (isdict, with its fields in d)
\* or any other JSON value.  highlight['content'] on a non-dict is a TypeError.
FixElement(el, transcription) ==
  IF ~el.isdict THEN [err |-> "TypeError", highlight |-> el.d]
  ELSE fix_highlight_timestamps(el.d, transcription)

\* HighlightSegment(start=float(segment["start"]), end=float(segment["end"]),
\*                  content=segment["content"])
MakeHighlightSegment(d) ==
  IF "start" \notin DOMAIN d THEN [err |-> "KeyError", segment |-> <<>>]
  ELSE IF Float(d["start"]).err # "none"
    THEN [err |-> Float(d["start"]).err, segment |-> <<>>]
  ELSE IF "end" \notin DOMAIN d THEN [err |-> "KeyError", segment |-> <<>>]
  ELSE IF Float(d["end"]).err # "none"
    THEN [err |-> Float(d["end"]).err, segment |-> <<>>]
  ELSE IF "content" \notin DOMAIN d THEN [err |-> "KeyError", segment |-> <<>>]
  ELSE [err |-> "none",
        segment |-> [start |-> Float(d["start"]).num,
                     end |-> Float(d["end"]).num,
                     content |-> d["content"]]]

\* the exception a list comprehension raises: that of its first failing item
FirstError(results) ==
  LET bad == {i \in 1..Len(results) : results[i].err # "none"}
  IN  IF bad = {} THEN "none"
      ELSE results[CHOOSE i \in bad : \A j \in bad : i <= j].err

\* except (KeyError, IndexError, ValueError): raise ValueError; anything else
\* propagates as it is
AsParseError(err) ==
  IF err \in {"KeyError", "IndexError", "ValueError"} THEN "ValueError" ELSE err

\* _extract_highlights that builds the segments from data, not fixed_data
extract_highlights_NoFix(response, transcription) ==
  IF ~response.valid THEN [err |-> "ValueError", highlights |-> <<>>]
  ELSE IF response.data.kind = "scalar"
    THEN [err |-> "TypeError", highlights |-> <<>>]
  ELSE
    LET data == response.data.items
        made == [i \in 1..Len(data) |->
                   IF data[i].isdict THEN MakeHighlightSegment(data[i].d)
                   ELSE [err |-> "TypeError", segment |-> <<>>]]
    IN  IF FirstError(made) # "none"
          THEN [err |-> AsParseError(FirstError(made)), highlights |-> <<>>]
          ELSE [err |-> "none",
                highlights |-> [i \in 1..Len(data) |-> made[i].segment]]

\* _extract_highlights that skips the elements it cannot convert
RECURSIVE KeepGood(_)
KeepGood(made) ==
  IF made = <<>> THEN <<>>
  ELSE IF Head(made).err = "none"
    THEN <<Head(made).segment>> \o KeepGood(Tail(made))
    ELSE KeepGood(Tail(made))

extract_highlights_SkipBad(response, transcription) ==
  IF ~response.valid THEN [err |-> "ValueError", highlights |-> <<>>]
  ELSE IF response.data.kind = "scalar"
    THEN [err |-> "TypeError", highlights |-> <<>>]
  ELSE
    LET data == response.data.items
        fixed_data == [i \in 1..Len(data) |-> FixElement(data[i], transcription)]
        made == [i \in 1..Len(data) |->
                   IF fixed_data[i].err # "none"
                     THEN [err |-> fixed_data[i].err, segment |-> <<>>]
                     ELSE MakeHighlightSegment(fixed_data[i].highlight)]
    IN  [err |-> "none", highlights |-> KeepGood(made)]

\* response: valid is FALSE when json.loads raises; data.kind is "array",
\* "object" (iterating gives its keys, in items) or "scalar" (not iterable)
extract_highlights(response, transcription) ==
  IF ~response.valid THEN [err |-> "ValueError", highlights |-> <<>>]
  ELSE IF response.data.kind = "scalar"
    THEN [err |-> "TypeError", highlights |-> <<>>]
  ELSE
    LET data == response.data.items
        fixed_data == [i \in 1..Len(data) |-> FixElement(data[i], transcription)]
    IN  IF FirstError(fixed_data) # "none"
          THEN [err |-> AsParseError(FirstError(fixed_data)),
                highlights |-> <<>>]
          ELSE
            LET made == [i \in 1..Len(data) |->
                           MakeHighlightSegment(fixed_data[i].highlight)]
            IN  IF FirstError(made) # "none"
                  THEN [err |-> AsParseError(FirstError(made)),
                        highlights |-> <<>>]
                  ELSE [err |-> "none",
                        highlights |-> [i \in 1..Len(data) |-> made[i].segment]]

\* rep.status: "request_failed" (requests.post or raise_for_status raised a
\* RequestException), "bad_body" (response.json() raised), "no_choices"
\* (result["choices"][0]["message"]["content"] raised KeyError) or "ok"
get_highlights(rep, transcription) ==
  CASE rep.status = "request_failed" -> [err |-> "ValueError", highlights |-> <<>>]
    [] rep.status = "bad_body" -> [err |-> "ValueError", highlights |-> <<>>]
    [] rep.status = "no_choices" -> [err |-> "KeyError", highlights |-> <<>>]
    [] OTHER -> extract_highlights(rep, transcription)

----------------------------------------------------------------------------
(* The example of SYSTEM_PROMPT_TEMPLATE *)

ExampleText1 ==
  <<
     "I", "t", " ", "d", "o", "e", "s", "n", "'", "t", " ", "m", "a", "t", "t", "e",
     "r", " ", "h", "o", "w", " ", "h", "i", "g", "h", " ", "s", "c", "h", "o", "o",
     "l", " ", "y", "o", "u", " ", "t", "a", "k", "e", " ", "a", "n", "d", " ", "h",
     "o", "w", " ", "h", "i", "g", "h", " ", "s", "c", "h", "o", "o", "l", " ", "y",
     "o", "u", " ", "a", "r", "e", ",", " ", "l", "i", "f", "e", " ", "i", "s", " ",
     "a", "l", "w", "a", "y", "s", " ", "a", " ", "w", "a", "y", " ", "t", "o", " ",
     "o", "v", "e", "r", "c", "o", "m", "e", " ", "y", "o", "u", "r", " ", "y", "e",
     "a", "r", "."
  >>

ExampleText2 ==
  <<
     "B", "u", "t", " ", "i", "t", " ", "d", "o", "e", "s", "n", "'", "t", " ", "m",
     "a", "t", "t", "e", "r", " ", "h", "o", "w", " ", "m", "u", "c", "h", " ", "y",
     "o", "u", " ", "g", "e", "t", " ", "f", "r", "o", "m", " ", "l", "i", "f", "e",
     ",", " ", "w", "h", "e", "r", "e", " ", "a", "r", "e", " ", "y", "o", "u", " ",
     "m", "o", "s", "t", " ", "i", "m", "p", "o", "r", "t", "a", "n", "t", " ", "c",
     "o", "n", "c", "l", "u", "s", "i", "o", "n", "s", " ", "f", "r", "o", "m", " ",
     "t", "h", "e", "s", "e", " ", "g", "i", "f", "t", "s", " ", "i", "n", " ", "t",
     "h", "e", " ", "f", "u", "t", "u", "r", "e", "?"
  >>

ExampleText3 ==
  <<
     "W", "h", "a", "t", " ", "c", "o", "n", "c", "l", "u", "s", "i", "o", "n", "s",
     " ", "h", "a", "v", "e", " ", "I", " ", "d", "o", "n", "e", "?"
  >>

ExampleText4 ==
  <<
     "L", "e", "t", "'", "s", " ", "f", "i", "n", "d", " ", "o", "u", "t", "!"
  >>

Segment(text, start, end) == [text |-> text, start |-> start, end |-> end]

ExampleTranscript ==
  << Segment(ExampleText1, 5662, 6512), Segment(ExampleText2, 6512, 7468),
     Segment(ExampleText3, 7668, 7760), Segment(ExampleText4, 7770, 10062) >>

\* the candidate of the end-to-end scenario: both boundaries are off
ExampleHighlight ==
  [k \in {"start", "end", "content"} |->
     CASE k = "start" -> Num(5660)
       [] k = "end" -> Num(7470)
       [] OTHER -> Str(ExampleText1 \o <<" ">> \o ExampleText2)]

----------------------------------------------------------------------------
(* Inputs *)

RECURSIVE SeqsUpTo(_, _)
SeqsUpTo(S, n) ==
  IF n = 0 THEN {<<>>}
  ELSE LET shorter == SeqsUpTo(S, n - 1)
       IN  shorter \cup {Append(q, x) : q \in shorter, x \in S}

ContentAlphabet == {"a", ".", " "}
Contents == SeqsUpTo(ContentAlphabet, MaxContentLen)

\* texts a transcript segment may hold ("a.", "aa", "a", ".a", "a. aa")
SegmentTexts ==
  { <<"a", ".">>, <<"a", "a">>, <<"a">>, <<".", "a">>,
    <<"a", ".", " ", "a", "a">> }

\* segment i of a transcript: ordered by start and non-overlapping, as
\* AudioTranscriber writes them
MakeTranscript(texts) ==
  [i \in 1..Len(texts) |-> Segment(texts[i], 100 * i, 100 * i + 90)]

Transcripts == {MakeTranscript(t) : t \in SeqsUpTo(SegmentTexts, MaxSegments)}

\* values the completion proposes for start and end: none is a segment
\* boundary except 100, the start of segment 1
ProposedTimes == {<<37, 141>>, <<100, 55>>}

MakeHighlight(start, end, content) ==
  [k \in {"start", "end", "content"} |->
     CASE k = "start" -> start
       [] k = "end" -> end
       [] OTHER -> content]

NoResult == [err |-> "pending", highlight |-> <<>>]
NoReply ==
  [status |-> "pending", valid |-> FALSE,
   data |-> [kind |-> "array", items |-> <<>>]]
NoOutcome == [err |-> "pending", highlights |-> <<>>]

\* the variables of main.py's run, while only a single call is modelled
RunIdle ==
  /\ api_key = TRUE
  /\ download = FALSE
  /\ events = <<>>
  /\ errors = {}
  /\ exit_code = -1
  /\ highlights = <<>>
  /\ idx = 0

\* the variables of process_video, while no clip is rendered
CaptionsIdle ==
  /\ segments = <<>>
  /\ subtitles = <<>>
  /\ trimmed_subtitles = <<>>
  /\ start_time = <<0, 1>>
  /\ end_time = <<0, 1>>

LayoutIdle ==
  /\ use_additional_video = FALSE
  /\ main_size = <<0, 0>>
  /\ additional_size = <<0, 0>>
  /\ additional_duration = 0
  /\ clip_duration = 0
  /\ random_start = 0
  /\ final_video = [panes |-> <<>>, size |-> <<0, 0>>]

\* the files and the clock, while nothing is read or written
OutputIdle ==
  /\ files = {}
  /\ created = {}
  /\ add_subtitles = FALSE
  /\ subtitle_position = "bottom"
  /\ text_position = <<>>
  /\ now = 0
  /\ output_filename = <<>>
  /\ writes = <<>>

----------------------------------------------------------------------------
(* Specification of one call of _fix_highlight_timestamps *)

InitFix ==
  /\ pc = "fix_call"
  /\ \/ /\ original_transcription \in Transcripts
        /\ \E c \in Contents, p \in ProposedTimes :
             highlight = MakeHighlight(Num(p[1]), Num(p[2]), Str(c))
     \/ /\ original_transcription = ExampleTranscript
        /\ highlight = ExampleHighlight
  /\ fixed = NoResult
  /\ reply = NoReply
  /\ outcome = NoOutcome
  /\ RunIdle
  /\ CaptionsIdle
  /\ LayoutIdle
  /\ OutputIdle

FixHighlightTimestamps ==
  /\ pc = "fix_call"
  /\ fixed' = fix_highlight_timestamps(highlight, original_transcription)
  /\ pc' = "fix_return"
  /\ UNCHANGED <<renderVars, original_transcription, highlight, reply, outcome, runVars>>

NextFix == FixHighlightTimestamps

SpecFix == InitFix /\ [][NextFix]_vars

----------------------------------------------------------------------------
(* Claims about _fix_highlight_timestamps, checked under SpecFix *)

\* indices of the segments whose text contains the sentence
Matching(transcription, sentence) ==
  {i \in 1..Len(transcription) : Contains(transcription[i].text, sentence)}

Earliest(S) == CHOOSE i \in S : \A j \in S : i <= j
Latest(S) == CHOOSE i \in S : \A j \in S : i >= j

HighlightSentences == Sentences(highlight["content"].str)
FirstSentence == HighlightSentences[1]
LastSentence == HighlightSentences[Len(HighlightSentences)]
StartMatches == Matching(original_transcription, FirstSentence)
EndMatches == Matching(original_transcription, LastSentence)

Returned == pc = "fix_return" /\ fixed.err = "none"

\* C1: when the first sentence of the content occurs in exactly one segment A
\* and the last sentence in exactly one segment B, the returned highlight has
\* start = A.start and end = B.end whatever start and end it carried in; the
\* candidate of the 4-segment example (5660, 7470) comes back as (5662, 7468).
C1_ExactBoundaries ==
  pc = "fix_return" =>
    /\ fixed.err = "none"
    /\ (HighlightSentences # <<>> /\ Cardinality(StartMatches) = 1
          /\ Cardinality(EndMatches) = 1) =>
         \A a \in StartMatches, b \in EndMatches :
           /\ fixed.highlight["start"] = Num(original_transcription[a].start)
           /\ fixed.highlight["end"] = Num(original_transcription[b].end)
    /\ (original_transcription = ExampleTranscript
          /\ highlight = ExampleHighlight) =>
         /\ fixed.highlight["start"] = Num(5662)
         /\ fixed.highlight["end"] = Num(7468)

\* the example candidate was corrected from unique anchors in segments 1 and 2
C1_Witness ==
  /\ Returned
  /\ original_transcription = ExampleTranscript
  /\ highlight = ExampleHighlight
  /\ StartMatches = {1}
  /\ EndMatches = {2}
  /\ highlight["start"] = Num(5660)
  /\ highlight["end"] = Num(7470)
  /\ fixed.highlight["start"] = Num(5662)
  /\ fixed.highlight["end"] = Num(7468)

\* C2: when the first or last sentence occurs in several segments, start comes
\* from the earliest segment containing the first sentence and end from the
\* latest segment containing the last sentence.
C2_EarliestStartLatestEnd ==
  (Returned /\ HighlightSentences # <<>>) =>
    /\ StartMatches # {} =>
         fixed.highlight["start"] =
           Num(original_transcription[Earliest(StartMatches)].start)
    /\ EndMatches # {} =>
         fixed.highlight["end"] =
           Num(original_transcription[Latest(EndMatches)].end)

\* C4: the call changes only the boundaries it found an anchor for: without a
\* segment containing the first (last) sentence start (end) keeps the proposed
\* value, content without a sentence returns the highlight as it came, and
\* content and the transcript are never changed.
C4_FrameState ==
  pc = "fix_return" =>
    /\ fixed.err = "none"
    /\ DOMAIN fixed.highlight = DOMAIN highlight
    /\ fixed.highlight["content"] = highlight["content"]
    /\ HighlightSentences = <<>> => fixed.highlight = highlight
    /\ (HighlightSentences # <<>> /\ StartMatches = {}) =>
         fixed.highlight["start"] = highlight["start"]
    /\ (HighlightSentences # <<>> /\ EndMatches = {}) =>
         fixed.highlight["end"] = highlight["end"]

C4_Frame ==
  /\ [](C4_FrameState)
  /\ [][original_transcription' = original_transcription]_vars

\* a call that found a start anchor but no end anchor: start moved, end kept
C4_Witness ==
  /\ Returned
  /\ HighlightSentences # <<>>
  /\ StartMatches # {}
  /\ EndMatches = {}
  /\ fixed.highlight["start"] # highlight["start"]
  /\ fixed.highlight["end"] = highlight["end"]
  /\ Len(original_transcription) >= 2

----------------------------------------------------------------------------
(* Specification of one call of get_highlights *)

Absent == [kind |-> "absent", num |-> 0, str |-> <<>>]

\* the dict with the fields that are not Absent
MakeDict(start, end, content) ==
  LET all == MakeHighlight(start, end, content)
  IN  [k \in {x \in DOMAIN all : all[x] # Absent} |-> all[k]]

StartOptions == {Absent, Num(37), Str(<<"7">>)}
EndOptions == {Absent, Num(141), Str(<<"x">>)}
ContentOptions ==
  {Absent, Null, Str(<<"a", ".">>), Str(<<"a", ".", " ", "a", "a">>)}

NonDict == [isdict |-> FALSE, d |-> <<>>]

Elements ==
  {[isdict |-> TRUE, d |-> MakeDict(st, en, c)] :
     st \in StartOptions, en \in EndOptions, c \in ContentOptions}
  \cup {NonDict}

Array(items) == [kind |-> "array", items |-> items]

Replies ==
  {[status |-> "ok", valid |-> TRUE, data |-> Array(items)] :
     items \in SeqsUpTo(Elements, MaxHighlights)}
  \cup {[status |-> "ok", valid |-> TRUE, data |-> [kind |-> k, items |-> it]] :
          k \in {"scalar", "object"}, it \in {<<>>, <<NonDict>>}}
  \cup {[status |-> st, valid |-> FALSE, data |-> Array(<<>>)] :
          st \in {"ok", "request_failed", "bad_body", "no_choices"}}

ExtractTranscripts ==
  { MakeTranscript(<< <<"a", ".">>, <<"a", "a">> >>),
    MakeTranscript(<< <<"a", "a">>, <<"a", ".">> >>),
    MakeTranscript(<< <<"a", ".">>, <<"a", ".">> >>),
    MakeTranscript(<< <<"a">> >>) }

InitExtract ==
  /\ pc = "get_highlights_call"
  /\ original_transcription \in ExtractTranscripts
  /\ highlight = <<>>
  /\ fixed = NoResult
  /\ reply = NoReply
  /\ outcome = NoOutcome
  /\ RunIdle
  /\ CaptionsIdle
  /\ LayoutIdle
  /\ OutputIdle

GetHighlights ==
  /\ pc = "get_highlights_call"
  /\ \E rep \in Replies :
       /\ reply' = rep
       /\ outcome' = get_highlights(rep, original_transcription)
  /\ pc' = "get_highlights_return"
  /\ UNCHANGED <<renderVars, original_transcription, fixVars, runVars>>

NextExtract == GetHighlights

SpecExtract == InitExtract /\ [][NextExtract]_vars

----------------------------------------------------------------------------
(* Claims about get_highlights / _extract_highlights, under SpecExtract *)

SegmentStarts ==
  {original_transcription[i].start : i \in 1..Len(original_transcription)}
SegmentEnds ==
  {original_transcription[i].end : i \in 1..Len(original_transcription)}

HighlightsReturned == pc = "get_highlights_return" /\ outcome.err = "none"

ReplyItems == reply.data.items

\* the sentences of element i of the response (none unless content is a string)
ElementSentences(i) ==
  IF ReplyItems[i].isdict /\ "content" \in DOMAIN ReplyItems[i].d
       /\ ReplyItems[i].d["content"].kind = "str"
    THEN Sentences(ReplyItems[i].d["content"].str)
    ELSE <<>>

FirstFound(i) ==
  /\ ElementSentences(i) # <<>>
  /\ Matching(original_transcription, ElementSentences(i)[1]) # {}

LastFound(i) ==
  /\ ElementSentences(i) # <<>>
  /\ Matching(original_transcription,
              ElementSentences(i)[Len(ElementSentences(i))]) # {}

\* C3 as stated: every returned highlight starts at the start of some segment
\* and ends at the end of some segment.
C3_AlwaysSegmentBoundaries ==
  HighlightsReturned =>
    \A i \in 1..Len(outcome.highlights) :
      /\ outcome.highlights[i].start \in SegmentStarts
      /\ outcome.highlights[i].end \in SegmentEnds

\* C3 amended: a returned highlight starts at the start of some segment when
\* some segment contains the first sentence of its content and ends at the end
\* of some segment when some segment contains its last sentence; a boundary
\* whose sentence no segment contains is the value the response proposed.
C3_AnchoredSegmentBoundaries ==
  HighlightsReturned =>
    \A i \in 1..Len(outcome.highlights) :
      /\ FirstFound(i) => outcome.highlights[i].start \in SegmentStarts
      /\ LastFound(i) => outcome.highlights[i].end \in SegmentEnds
      /\ ~FirstFound(i) =>
           outcome.highlights[i].start = Float(ReplyItems[i].d["start"]).num
      /\ ~LastFound(i) =>
           outcome.highlights[i].end = Float(ReplyItems[i].d["end"]).num

\* a returned highlight whose start was anchored and whose end was not
C3_Witness ==
  /\ HighlightsReturned
  /\ \E i \in 1..Len(outcome.highlights) :
       /\ FirstFound(i)
       /\ ~LastFound(i)
       /\ outcome.highlights[i].start \in SegmentStarts
       /\ outcome.highlights[i].end \notin SegmentEnds

\* C5: get_highlights returns one highlight per element of the response, in
\* the order of the response, or it fails and returns nothing: never a part.
C5_AllOrNothing ==
  pc = "get_highlights_return" =>
    \/ /\ outcome.err # "none"
       /\ outcome.highlights = <<>>
    \/ /\ outcome.err = "none"
       /\ reply.status = "ok" /\ reply.valid
       /\ Len(outcome.highlights) = Len(ReplyItems)
       /\ \A i \in 1..Len(ReplyItems) :
            /\ ReplyItems[i].isdict
            /\ "content" \in DOMAIN ReplyItems[i].d
            /\ outcome.highlights[i].content = ReplyItems[i].d["content"]

\* an element that converts on its own, i.e. as the only element of a response
ConvertsAlone(el) ==
  extract_highlights([status |-> "ok", valid |-> TRUE, data |-> Array(<<el>>)],
                     original_transcription).err = "none"

\* a batch whose first element converts and whose second does not: it failed
C5_Witness ==
  /\ pc = "get_highlights_return"
  /\ reply.status = "ok" /\ reply.valid /\ reply.data.kind = "array"
  /\ Len(ReplyItems) = 2
  /\ ConvertsAlone(ReplyItems[1])
  /\ ~ConvertsAlone(ReplyItems[2])
  /\ outcome.err # "none"
  /\ outcome.highlights = <<>>

\* the fields of element el that are present hold values float() and strip()
\* accept
WellTyped(el) ==
  /\ el.isdict
  /\ \A k \in DOMAIN el.d \cap {"start", "end"} : Float(el.d[k]).err = "none"
  /\ "content" \in DOMAIN el.d => el.d["content"].kind = "str"

LacksField(el) == el.isdict /\ DOMAIN el.d # {"start", "end", "content"}

\* C6: a response element that lacks start, end or content makes the whole
\* batch fail with the parse error (ValueError), for every transcript.
C6_MissingFieldFails ==
  ( /\ pc = "get_highlights_return"
    /\ reply.status = "ok" /\ reply.valid /\ reply.data.kind = "array"
    /\ \A i \in 1..Len(ReplyItems) : WellTyped(ReplyItems[i])
    /\ \E i \in 1..Len(ReplyItems) : LacksField(ReplyItems[i]) )
  => outcome.err = "ValueError"

----------------------------------------------------------------------------
(* Specification of one run of main.py *)

Event(op, arg, ok) == [op |-> op, arg |-> arg, ok |-> ok]

RunElements ==
  { [isdict |-> TRUE, d |-> MakeDict(Num(37), Num(141), Str(<<"a", ".">>))],
    [isdict |-> TRUE,
     d |-> MakeDict(Num(37), Num(141), Str(<<"a", ".", " ", "a", "a">>))],
    [isdict |-> TRUE, d |-> MakeDict(Num(37), Num(141), Absent)],
    [isdict |-> TRUE,
     d |-> MakeDict(Num(37), Num(141), Str(<<"b", ".", " ", "a", ".">>))] }

RunReplies ==
  {[status |-> "ok", valid |-> TRUE, data |-> Array(items)] :
     items \in SeqsUpTo(RunElements, MaxHighlights)}
  \cup {[status |-> st, valid |-> FALSE, data |-> Array(<<>>)] :
          st \in {"ok", "request_failed"}}

RunTranscripts ==
  { MakeTranscript(<< <<"a", ".">>, <<"a", "a">> >>),
    MakeTranscript(<< <<"a", ".">>, <<"b", ".">> >>),
    MakeTranscript(<< <<"a">> >>) }

InitRun ==
  /\ pc = "get_video_path"
  /\ api_key \in BOOLEAN
  /\ download \in BOOLEAN
  /\ original_transcription = <<>>
  /\ highlight = <<>>
  /\ fixed = NoResult
  /\ reply = NoReply
  /\ outcome = NoOutcome
  /\ events = <<>>
  /\ errors = {}
  /\ exit_code = -1
  /\ highlights = <<>>
  /\ idx = 0
  /\ CaptionsIdle
  /\ LayoutIdle
  /\ OutputIdle

\* sys.exit(1) after the error of the given kind was logged
ExitWithError(kind) ==
  /\ errors' = errors \cup {kind}
  /\ exit_code' = 1
  /\ pc' = "exited"

\* get_video_path: a download that fails exits with status 1
GetVideoPath ==
  /\ pc = "get_video_path"
  /\ \/ /\ download
        /\ events' = Append(events, Event("download", 0, TRUE))
        /\ pc' = "transcribe_video"
        /\ UNCHANGED <<errors, exit_code>>
     \/ /\ download
        /\ events' = Append(events, Event("download", 0, FALSE))
        /\ ExitWithError("download")
     \/ /\ ~download
        /\ pc' = "transcribe_video"
        /\ UNCHANGED <<events, errors, exit_code>>
  /\ UNCHANGED <<renderVars, original_transcription, fixVars, reply, outcome, api_key,
                 download, highlights, idx>>

\* transcribe_video: no audio stream exits with status 1; an exception of
\* AudioTranscriber.transcribe_video reaches main's except and exits with 1
TranscribeVideo ==
  /\ pc = "transcribe_video"
  /\ \/ /\ ExitWithError("no_audio")
        /\ UNCHANGED <<events, original_transcription>>
     \/ /\ events' = Append(events, Event("transcribe", 0, FALSE))
        /\ ExitWithError("transcription")
        /\ UNCHANGED original_transcription
     \/ /\ events' = Append(events, Event("transcribe", 0, TRUE))
        /\ original_transcription' \in RunTranscripts
        /\ pc' = "analyze_transcription"
        /\ UNCHANGED <<errors, exit_code>>
  /\ UNCHANGED <<renderVars, fixVars, reply, outcome, api_key, download, highlights, idx>>

\* analyze_transcription that asks the completion service a second time when
\* the first request failed
AnalyzeTranscription_Retry ==
  /\ pc = "analyze_transcription"
  /\ \/ /\ ~api_key
        /\ ExitWithError("credential")
        /\ UNCHANGED <<events, reply, outcome, highlights, idx>>
     \/ /\ api_key
        /\ \E rep \in RunReplies :
             LET r == get_highlights(rep, original_transcription)
             IN  /\ reply' = rep
                 /\ outcome' = r
                 /\ IF r.err # "none"
                      THEN /\ events' = events \o <<Event("request", 0, FALSE),
                                                     Event("request", 0, FALSE)>>
                           /\ ExitWithError("analysis")
                           /\ UNCHANGED <<highlights, idx>>
                      ELSE /\ events' = Append(events, Event("request", 0, TRUE))
                           /\ highlights' = r.highlights
                           /\ idx' = 1
                           /\ pc' = "process_highlights"
                           /\ UNCHANGED <<errors, exit_code>>
  /\ UNCHANGED <<renderVars, original_transcription, fixVars, api_key, download>>

\* analyze_transcription that logs a failure of get_highlights and goes on
\* with no highlight instead of exiting
AnalyzeTranscription_SwallowError ==
  /\ pc = "analyze_transcription"
  /\ \/ /\ ~api_key
        /\ ExitWithError("credential")
        /\ UNCHANGED <<events, reply, outcome, highlights, idx>>
     \/ /\ api_key
        /\ \E rep \in RunReplies :
             LET r == get_highlights(rep, original_transcription)
             IN  /\ events' = Append(events, Event("request", 0, r.err = "none"))
                 /\ reply' = rep
                 /\ outcome' = r
                 /\ errors' = IF r.err # "none" THEN errors \cup {"analysis"}
                              ELSE errors
                 /\ highlights' = r.highlights
                 /\ idx' = 1
                 /\ pc' = "process_highlights"
                 /\ UNCHANGED exit_code
  /\ UNCHANGED <<renderVars, original_transcription, fixVars, api_key, download>>

\* analyze_transcription: TranscriptionAnalyzer() raises without MISTRAL_API
\* (caught by main, exit 1); one call of get_highlights, whose failure exits
\* with status 1
AnalyzeTranscription ==
  /\ pc = "analyze_transcription"
  /\ \/ /\ ~api_key
        /\ ExitWithError("credential")
        /\ UNCHANGED <<events, reply, outcome, highlights, idx>>
     \/ /\ api_key
        /\ \E rep \in RunReplies :
             LET r == get_highlights(rep, original_transcription)
             IN  /\ events' = Append(events, Event("request", 0, r.err = "none"))
                 /\ reply' = rep
                 /\ outcome' = r
                 /\ IF r.err # "none"
                      THEN /\ ExitWithError("analysis")
                           /\ UNCHANGED <<highlights, idx>>
                      ELSE /\ highlights' = r.highlights
                           /\ idx' = 1
                           /\ pc' = "process_highlights"
                           /\ UNCHANGED <<errors, exit_code>>
  /\ UNCHANGED <<renderVars, original_transcription, fixVars, api_key, download>>

\* process_highlights whose try encloses the loop: the first failing render
\* ends the loop
RenderHighlight_AbortOnFailure ==
  /\ pc = "process_highlights"
  /\ idx <= Len(highlights)
  /\ \E ok \in BOOLEAN :
       /\ events' = Append(events, Event("render", idx, ok))
       /\ errors' = IF ok THEN errors ELSE errors \cup {"render"}
       /\ idx' = IF ok THEN idx + 1 ELSE Len(highlights) + 1
  /\ UNCHANGED <<renderVars, pc, original_transcription, fixVars, reply, outcome, api_key,
                 download, exit_code, highlights>>

\* process_highlights whose render moves the highlight it renders to the
\* clip's local time, in place
RenderHighlight_ShiftsHighlight ==
  /\ pc = "process_highlights"
  /\ idx <= Len(highlights)
  /\ \E ok \in BOOLEAN :
       /\ events' = Append(events, Event("render", idx, ok))
       /\ errors' = IF ok THEN errors ELSE errors \cup {"render"}
  /\ highlights' = [highlights EXCEPT ![idx].end = @ - highlights[idx].start,
                                      ![idx].start = 0]
  /\ idx' = idx + 1
  /\ UNCHANGED <<renderVars, pc, original_transcription, fixVars, reply, outcome, api_key,
                 download, exit_code>>

\* one iteration of the loop of process_highlights: VideoProcessor() and
\* process_video are tried, any Exception is logged and the loop continues
RenderHighlight ==
  /\ pc = "process_highlights"
  /\ idx <= Len(highlights)
  /\ \E ok \in BOOLEAN :
       /\ events' = Append(events, Event("render", idx, ok))
       /\ errors' = IF ok THEN errors ELSE errors \cup {"render"}
  /\ idx' = idx + 1
  /\ UNCHANGED <<renderVars, pc, original_transcription, fixVars, reply, outcome, api_key,
                 download, exit_code, highlights>>

\* the loop is over: main logs success and returns, exit status 0
FinishRun ==
  /\ pc = "process_highlights"
  /\ idx > Len(highlights)
  /\ exit_code' = 0
  /\ pc' = "exited"
  /\ UNCHANGED <<renderVars, original_transcription, fixVars, reply, outcome, api_key,
                 download, events, errors, highlights, idx>>

NextRun ==
  \/ GetVideoPath
  \/ TranscribeVideo
  \/ AnalyzeTranscription
  \/ RenderHighlight
  \/ FinishRun

SpecRun == InitRun /\ [][NextRun]_vars

----------------------------------------------------------------------------
(* Claims about the run, checked under SpecRun *)

EventsOf(op) == {i \in 1..Len(events) : events[i].op = op}

Work == {"download", "transcribe", "request", "render"}

\* the render events, in the order they happened
RenderEvents == SelectSeq(events, LAMBDA e : e.op = "render")

\* C7: without MISTRAL_API the run fails before any pipeline work: no
\* download, no transcription, no completion request and no render is done.
C7_NoWorkWithoutCredential ==
  ~api_key => \A i \in 1..Len(events) : events[i].op \notin Work

\* C8: a failing render never keeps the later highlights from being tried:
\* whatever renders fail, each highlight is rendered exactly once, in order.
C8_EveryHighlightAttempted ==
  /\ pc = "process_highlights" =>
       /\ idx \in 1..(Len(highlights) + 1)
       /\ Len(RenderEvents) = idx - 1
  /\ \A i \in 1..Len(RenderEvents) : RenderEvents[i].arg = i
  /\ (pc = "exited" /\ idx >= 1) => Len(RenderEvents) = Len(highlights)

\* the first of two highlights failed and the second was rendered after it
C8_Witness ==
  /\ pc = "exited"
  /\ Len(highlights) = 2
  /\ Len(RenderEvents) = 2
  /\ ~RenderEvents[1].ok
  /\ RenderEvents[2].ok
  /\ RenderEvents[2].arg = 2

BatchFatal == {"download", "no_audio", "transcription", "credential", "analysis"}

\* C9: the exit status is 1 exactly when a batch-fatal error occurred (a
\* download, missing-audio, selection, parse or reconciliation error) and 0
\* when at most render errors occurred, even if every render failed.
C9_ExitStatus ==
  /\ pc = "exited" =>
       /\ exit_code \in {0, 1}
       /\ exit_code = 1 <=> errors \cap BatchFatal # {}
       /\ exit_code = 0 <=> errors \subseteq {"render"}
  /\ pc # "exited" => exit_code = -1 /\ errors \cap BatchFatal = {}
  /\ (reply.status # "pending" /\ outcome.err # "none") =>
       pc = "exited" /\ exit_code = 1
  /\ \A i \in 1..Len(events) :
       (events[i].op \in {"download", "transcribe"} /\ ~events[i].ok) =>
         pc = "exited" /\ exit_code = 1

\* every render of a batch of two failed and the run still ended with status 0
C9_Witness ==
  /\ pc = "exited"
  /\ exit_code = 0
  /\ Len(highlights) = 2
  /\ Len(RenderEvents) = 2
  /\ \A i \in 1..Len(RenderEvents) : ~RenderEvents[i].ok
  /\ errors = {"render"}

\* C10: the completion service is called at most once in a run, and when
\* that request fails or its response cannot be parsed the run ends without
\* rendering any highlight.
C10_SingleRequestNoRetry ==
  /\ Cardinality(EventsOf("request")) <= 1
  /\ (reply.status # "pending" /\ outcome.err # "none") =>
       /\ pc = "exited"
       /\ exit_code = 1
       /\ EventsOf("render") = {}
  /\ EventsOf("render") # {} =>
       /\ Cardinality(EventsOf("request")) = 1
       /\ outcome.err = "none"

\* the one request failed and the run ended with nothing rendered
C10_Witness ==
  /\ pc = "exited"
  /\ reply.status = "request_failed"
  /\ Cardinality(EventsOf("request")) = 1
  /\ EventsOf("render") = {}
  /\ exit_code = 1


----------------------------------------------------------------------------
(* Python floats, as VideoProcessor.py computes caption times.  A float is *)
(* a pair <<n, d>>: the non-negative rational n/d in lowest terms, d a     *)
(* power of two.  Every operation rounds its exact result to MantissaBits  *)
(* significant bits, to nearest, ties to even: IEEE 754 arithmetic with a  *)
(* shorter mantissa than the 53 bits of a double.                          *)

MantissaBits == 5

RECURSIVE Lowest(_, _)
Lowest(n, d) ==
  IF n = 0 THEN <<0, 1>>
  ELSE IF n % 2 = 0 /\ d % 2 = 0 THEN Lowest(n \div 2, d \div 2)
  ELSE <<n, d>>

\* n/d = (n'/d') * 2^e with 2^(MantissaBits-1) <= n'/d' < 2^MantissaBits
RECURSIVE Scale(_, _, _)
Scale(n, d, e) ==
  IF n < 2^(MantissaBits - 1) * d THEN Scale(2 * n, d, e - 1)
  ELSE IF n >= 2^MantissaBits * d THEN Scale(n, 2 * d, e + 1)
  ELSE [n |-> n, d |-> d, e |-> e]

\* the float nearest to n/d (n >= 0, d > 0)
RoundToFloat(n, d) ==
  IF n = 0 THEN <<0, 1>>
  ELSE LET sc == Scale(n, d, 0)
           q == sc.n \div sc.d
           r == sc.n % sc.d
           m == IF 2 * r < sc.d THEN q
                ELSE IF 2 * r > sc.d THEN q + 1
                ELSE IF q % 2 = 0 THEN q ELSE q + 1
       IN  IF sc.e >= 0 THEN <<m * 2^sc.e, 1>>
           ELSE Lowest(m, 2^(0 - sc.e))

FAdd(a, b) == RoundToFloat(a[1] * b[2] + b[1] * a[2], a[2] * b[2])
\* a - b for a >= b
FSub(a, b) == RoundToFloat(a[1] * b[2] - b[1] * a[2], a[2] * b[2])
FMul(a, b) == RoundToFloat(a[1] * b[1], a[2] * b[2])
\* i / j of two ints (true division)
TrueDiv(i, j) == RoundToFloat(i, j)
\* a <= b
FLeq(a, b) == a[1] * b[2] <= b[1] * a[2]

----------------------------------------------------------------------------
(* SubtitleProcessor: _split_subtitle and extract_subtitles *)

\* str.split(): the maximal runs of non-whitespace characters, in order
WordStarts(s) ==
  {i \in 1..Len(s) : s[i] \notin Whitespace /\ (i = 1 \/ s[i - 1] \in Whitespace)}
WordEnd(s, i) ==
  CHOOSE j \in i..Len(s) :
    /\ \A k \in i..j : s[k] \notin Whitespace
    /\ (j = Len(s) \/ s[j + 1] \in Whitespace)
StrSplit(s) ==
  LET starts == WordStarts(s)
      nth(k) == CHOOSE i \in starts : Cardinality({j \in starts : j < i}) = k - 1
  IN  [k \in 1..Cardinality(starts) |-> SubSeq(s, nth(k), WordEnd(s, nth(k)))]

\* ' '.join(chunk)
RECURSIVE Join(_)
Join(chunk) ==
  IF chunk = <<>> THEN <<>>
  ELSE IF Len(chunk) = 1 THEN chunk[1]
  ELSE chunk[1] \o <<" ">> \o Join(Tail(chunk))

\* words[i:i + 3] for a 0-based i < len(words)
Slice3(words, i) ==
  SubSeq(words, i + 1, IF i + 3 < Len(words) THEN i + 3 ELSE Len(words))

MakeChunk_TwoWords(subtitle, words, i) ==
  LET chunk == SubSeq(words, i + 1, IF i + 2 < Len(words) THEN i + 2 ELSE Len(words))
      duration == FSub(subtitle.end, subtitle.start)
      chunk_duration == FMul(duration, TrueDiv(Len(chunk), Len(words)))
      chunk_start == FAdd(subtitle.start, FMul(duration, TrueDiv(i, Len(words))))
  IN  [start |-> chunk_start,
       end |-> FAdd(chunk_start, chunk_duration),
       text |-> Join(chunk)]

MakeChunk_NoOffset(subtitle, words, i) ==
  LET chunk == Slice3(words, i)
      duration == FSub(subtitle.end, subtitle.start)
      chunk_duration == FMul(duration, TrueDiv(Len(chunk), Len(words)))
      chunk_start == FMul(duration, TrueDiv(i, Len(words)))
  IN  [start |-> chunk_start,
       end |-> FAdd(chunk_start, chunk_duration),
       text |-> Join(chunk)]

\* one pass of the loop of _split_subtitle, for the 0-based word index i
MakeChunk(subtitle, words, i) ==
  LET chunk == Slice3(words, i)
      duration == FSub(subtitle.end, subtitle.start)
      chunk_duration == FMul(duration, TrueDiv(Len(chunk), Len(words)))
      chunk_start == FAdd(subtitle.start, FMul(duration, TrueDiv(i, Len(words))))
      chunk_end == FAdd(chunk_start, chunk_duration)
  IN  [start |-> chunk_start, end |-> chunk_end, text |-> Join(chunk)]

\* the values of range(0, n, 3), as a list
Range3(n) ==
  LET values == {i \in 0..(n - 1) : i % 3 = 0}
  IN  [k \in 1..Cardinality(values) |->
         CHOOSE i \in values : Cardinality({j \in values : j < i}) = k - 1]

split_subtitle_FullChunksOnly(subtitle) ==
  LET words == StrSplit(subtitle.text)
      range == Range3(Len(words) - 2)
  IN  [k \in 1..Len(range) |-> MakeChunk(subtitle, words, range[k])]

split_subtitle(subtitle) ==
  LET words == StrSplit(subtitle.text)
      range == Range3(Len(words))
  IN  [k \in 1..Len(range) |-> MakeChunk(subtitle, words, range[k])]

RECURSIVE extract_subtitles(_)
extract_subtitles(result_segments) ==
  IF result_segments = <<>> THEN <<>>
  ELSE LET segment == Head(result_segments)
           subtitle == [start |-> segment.start,
                        end |-> segment.end,
                        text |-> Strip(segment.text)]
       IN  split_subtitle(subtitle) \o extract_subtitles(Tail(result_segments))

----------------------------------------------------------------------------
(* process_video: the captions of the clip [start_time, end_time] *)

InWindow(subtitle, t0, t1) ==
  FLeq(t0, subtitle.start) /\ FLeq(subtitle.end, t1)

TrimSubtitles_StartOnly(short_subtitles, t0, t1) ==
  LET kept == SelectSeq(short_subtitles, LAMBDA sub : FLeq(t0, sub.start))
  IN  [k \in 1..Len(kept) |->
         [start |-> FSub(kept[k].start, t0),
          end |-> FSub(kept[k].end, t0),
          text |-> kept[k].text]]

\* the list trimmed_subtitles after its times were made relative to t0
TrimSubtitles(short_subtitles, t0, t1) ==
  LET kept == SelectSeq(short_subtitles, LAMBDA sub : InWindow(sub, t0, t1))
  IN  [k \in 1..Len(kept) |->
         [start |-> FSub(kept[k].start, t0),
          end |-> FSub(kept[k].end, t0),
          text |-> kept[k].text]]

----------------------------------------------------------------------------
(* Specification of the captions of one clip: extract_subtitles, then the  *)
(* trimming of process_video                                               *)

MaxWords == 7
MaxTime == 6

Vocabulary == << <<"a">>, <<"b", "b">>, <<"c", "c", "c">> >>
CaptionWords(n) == [i \in 1..n |-> Vocabulary[((i - 1) % 3) + 1]]

\* the words with two blanks between them and one blank around them
RECURSIVE Padded(_)
Padded(words) ==
  IF words = <<>> THEN <<" ">>
  ELSE <<" ">> \o Head(words) \o <<" ">> \o Padded(Tail(words))

CaptionTexts ==
  {Join(CaptionWords(n)) : n \in 0..MaxWords}
    \cup {Padded(CaptionWords(n)) : n \in 0..MaxWords}

\* the half seconds 0, 0.5, ... MaxTime / 2
TimeGrid == {Lowest(k, 2) : k \in 0..MaxTime}

\* a clip start between two points of the grid, 0.3125 s
FineTime == <<5, 16>>

\* a caption from 10 s to 12 s and the clip from 5 s to 20 s
ExampleCaption ==
  [start |-> <<10, 1>>, end |-> <<12, 1>>, text |-> Join(CaptionWords(2))]

InitCaptions ==
  /\ pc = "extract_subtitles"
  /\ \/ /\ \E text \in CaptionTexts, t0 \in TimeGrid, t1 \in TimeGrid :
             /\ FLeq(t0, t1)
             /\ segments = <<[start |-> t0, end |-> t1, text |-> text]>>
        /\ start_time \in TimeGrid \cup {FineTime}
        /\ end_time \in TimeGrid
        /\ FLeq(start_time, end_time) /\ start_time # end_time
     \/ /\ segments = <<ExampleCaption>>
        /\ start_time = <<5, 1>>
        /\ end_time = <<20, 1>>
  /\ subtitles = <<>>
  /\ trimmed_subtitles = <<>>
  /\ original_transcription = <<>>
  /\ highlight = <<>>
  /\ fixed = NoResult
  /\ reply = NoReply
  /\ outcome = NoOutcome
  /\ RunIdle
  /\ LayoutIdle
  /\ OutputIdle

ExtractSubtitles ==
  /\ pc = "extract_subtitles"
  /\ subtitles' = extract_subtitles(segments)
  /\ pc' = "trim_subtitles"
  /\ UNCHANGED <<segments, trimmed_subtitles, start_time, end_time, layoutVars, outputVars,
                 original_transcription, fixVars, reply, outcome, runVars>>

TrimToClip ==
  /\ pc = "trim_subtitles"
  /\ trimmed_subtitles' = TrimSubtitles(subtitles, start_time, end_time)
  /\ pc' = "captions_done"
  /\ UNCHANGED <<segments, subtitles, start_time, end_time, layoutVars, outputVars,
                 original_transcription, fixVars, reply, outcome, runVars>>

NextCaptions == ExtractSubtitles \/ TrimToClip

SpecCaptions == InitCaptions /\ [][NextCaptions]_vars

\* exact arithmetic on the rationals that floats are
RatSub(a, b) == Lowest(a[1] * b[2] - b[1] * a[2], a[2] * b[2])
RatAdd(a, b) == Lowest(a[1] * b[2] + b[1] * a[2], a[2] * b[2])
RatAbs(a) == IF a[1] < 0 THEN <<0 - a[1], a[2]>> ELSE a
RatLeq(a, b) == a[1] * b[2] <= b[1] * a[2]
RatEq(a, b) == a[1] * b[2] = b[1] * a[2]
\* |x - y| <= ulps * scale * 2^(-MantissaBits)
WithinRounding(x, y, ulps, scale) ==
  LET diff == RatAbs(RatSub(x, y))
  IN  diff[1] * scale[2] * 2^MantissaBits <= ulps * scale[1] * diff[2]

Extracted == pc \in {"trim_subtitles", "captions_done"}
Source == segments[1]
SourceWords == Cardinality(WordStarts(Source.text))
SourceDuration == RatSub(Source.end, Source.start)
Span(subtitle) == RatSub(subtitle.end, subtitle.start)
RECURSIVE SumOfSpans(_)
SumOfSpans(chunks) ==
  IF chunks = <<>> THEN <<0, 1>>
  ELSE RatAdd(Span(Head(chunks)), SumOfSpans(Tail(chunks)))

\* C11 as stated: a caption of N words is split into ceil(N / 3) chunks (none
\* for N = 0) and the chunks' (end - start) add up to exactly the caption's
\* end - start.
C11_ExactSumOfSpans ==
  Extracted =>
    /\ Len(subtitles) = (SourceWords + 2) \div 3
    /\ SourceWords > 0 => SumOfSpans(subtitles) = SourceDuration

\* C11 amended: a caption of N words is split into ceil(N / 3) chunks (none
\* for N = 0) and the chunks' (end - start) add up to the caption's
\* end - start within floating-point rounding: the difference is at most
\* (chunks + 4) * 2^(-mantissa bits) * end.
C11_SumOfSpansWithinRounding ==
  Extracted =>
    /\ Len(subtitles) = (SourceWords + 2) \div 3
    /\ SourceWords > 0 =>
         WithinRounding(SumOfSpans(subtitles), SourceDuration,
                        Len(subtitles) + 4, Source.end)

\* a caption of seven words whose three chunks do not add up exactly
C11_Witness ==
  /\ Extracted
  /\ SourceWords = 7
  /\ Len(subtitles) = 3
  /\ SumOfSpans(subtitles) # SourceDuration

ChunkWords(k) == StrSplit(subtitles[k].text)
RECURSIVE WordsUpTo(_)
WordsUpTo(k) == IF k = 0 THEN <<>> ELSE WordsUpTo(k - 1) \o ChunkWords(k)

\* C12: every chunk holds between 1 and 3 words, and the chunks' words, taken
\* in chunk order, are the caption's words: none lost, duplicated or reordered.
C12_WordsPartitioned ==
  Extracted =>
    /\ \A k \in 1..Len(subtitles) : Len(ChunkWords(k)) \in 1..3
    /\ WordsUpTo(Len(subtitles)) = StrSplit(Source.text)

\* seven words between irregular whitespace: chunks of 3, 3 and 1 words
C12_Witness ==
  /\ Extracted
  /\ Source.text = Padded(CaptionWords(7))
  /\ Len(subtitles) = 3
  /\ Len(ChunkWords(1)) = 3
  /\ Len(ChunkWords(3)) = 1

\* the share of the caption's duration that chunk k's words are, exactly
ExactShare(k) ==
  Lowest(SourceDuration[1] * Len(ChunkWords(k)), SourceDuration[2] * SourceWords)

\* C13 as stated: the chunks tile the caption's time range exactly: the
\* first starts at the caption's start, each ends where the next starts, the
\* last ends at the caption's end, starts never decrease, and each chunk
\* lasts the caption's duration times its share of the words.
C13_ExactTiling ==
  (Extracted /\ subtitles # <<>>) =>
    /\ subtitles[1].start = Source.start
    /\ \A k \in 1..(Len(subtitles) - 1) :
         /\ subtitles[k].end = subtitles[k + 1].start
         /\ RatLeq(subtitles[k].start, subtitles[k + 1].start)
    /\ subtitles[Len(subtitles)].end = Source.end
    /\ \A k \in 1..Len(subtitles) : RatEq(Span(subtitles[k]), ExactShare(k))

\* C13 amended: the first chunk starts exactly at the caption's start and
\* starts never decrease; each chunk's end and the next chunk's start, the
\* last chunk's end and the caption's end, and each chunk's duration and the
\* caption's duration times its share of the words are equal within
\* floating-point rounding: they differ by at most 8 * 2^(-mantissa bits) * end.
C13_TilingWithinRounding ==
  (Extracted /\ subtitles # <<>>) =>
    /\ subtitles[1].start = Source.start
    /\ \A k \in 1..(Len(subtitles) - 1) :
         /\ WithinRounding(subtitles[k].end, subtitles[k + 1].start, 8, Source.end)
         /\ RatLeq(subtitles[k].start, subtitles[k + 1].start)
    /\ WithinRounding(subtitles[Len(subtitles)].end, Source.end, 8, Source.end)
    /\ \A k \in 1..Len(subtitles) :
         WithinRounding(Span(subtitles[k]), ExactShare(k), 8, Source.end)

\* three chunks of a caption that starts after 0, with a rounded seam
C13_Witness ==
  /\ Extracted
  /\ Len(subtitles) = 3
  /\ Source.start # <<0, 1>>
  /\ subtitles[2].end # subtitles[3].start
  /\ subtitles[1].start = Source.start

Trimmed == pc = "captions_done"
\* the chunks inside the clip, by their index in subtitles
KeptIndices ==
  {k \in 1..Len(subtitles) :
     RatLeq(start_time, subtitles[k].start) /\ RatLeq(subtitles[k].end, end_time)}
KeptIndex(j) ==
  CHOOSE k \in KeptIndices : Cardinality({i \in KeptIndices : i < k}) = j - 1

\* C14 as stated: a chunk is kept iff start_time <= start and end <= end_time,
\* whole; each kept chunk has start_time taken off its start and its end, so
\* its text and its duration are unchanged and its times lie in
\* [0, end_time - start_time].
C14_ExactNormalisation ==
  Trimmed =>
    /\ Len(trimmed_subtitles) = Cardinality(KeptIndices)
    /\ \A j \in 1..Len(trimmed_subtitles) :
         LET before == subtitles[KeptIndex(j)]
             after == trimmed_subtitles[j]
         IN  /\ after.text = before.text
             /\ RatEq(after.start, RatSub(before.start, start_time))
             /\ RatEq(after.end, RatSub(before.end, start_time))
             /\ RatEq(Span(after), Span(before))
             /\ RatLeq(<<0, 1>>, after.start)
             /\ RatLeq(after.end, RatSub(end_time, start_time))

\* C14 amended: a chunk is kept iff start_time <= start and end <= end_time,
\* whole and with its text; each kept chunk's start and end are the floats
\* start - start_time and end - start_time, so its duration is unchanged
\* within floating-point rounding (by at most 2 * 2^(-mantissa bits) *
\* (end_time - start_time)) and its times lie between 0 and the float
\* end_time - start_time.
C14_NormalisedWithinRounding ==
  Trimmed =>
    /\ Len(trimmed_subtitles) = Cardinality(KeptIndices)
    /\ \A j \in 1..Len(trimmed_subtitles) :
         LET before == subtitles[KeptIndex(j)]
             after == trimmed_subtitles[j]
             window == RatSub(end_time, start_time)
         IN  /\ after.text = before.text
             /\ WithinRounding(after.start, RatSub(before.start, start_time), 1, window)
             /\ WithinRounding(after.end, RatSub(before.end, start_time), 1, window)
             /\ WithinRounding(Span(after), Span(before), 2, window)
             /\ RatLeq(<<0, 1>>, after.start)
             /\ RatLeq(after.start, after.end)
             /\ RatLeq(after.end, RoundToFloat(window[1], window[2]))

\* the caption from 10 s to 12 s is kept in the clip from 5 s to 20 s, from 5 s
C14_WitnessExample ==
  /\ Trimmed
  /\ segments = <<ExampleCaption>>
  /\ Len(trimmed_subtitles) = 1
  /\ trimmed_subtitles[1].start = <<5, 1>>
  /\ trimmed_subtitles[1].end = <<7, 1>>

\* some chunks kept and some dropped, a kept one with a rounded duration
C14_Witness ==
  /\ Trimmed
  /\ Len(trimmed_subtitles) \in 1..(Len(subtitles) - 1)
  /\ \E j \in 1..Len(trimmed_subtitles) :
       ~RatEq(Span(trimmed_subtitles[j]), Span(subtitles[KeptIndex(j)]))

----------------------------------------------------------------------------
(* VideoProcessor: cropping and the layout of the final frame.  An aspect  *)
(* ratio is a fraction <<numerator, denominator>>.  9 / 16 and 9 / 8 are   *)
(* exact as floats, so width / height compares with them as the fraction   *)
(* does, and int(height * ratio) and int(width / ratio) are the floors of  *)
(* the exact products and quotients.  A crop is the rectangle handed to    *)
(* video.crop; the cropped clip is x2 - x1 wide and y2 - y1 high.          *)

FullRatio == <<9, 16>>
SplitRatio == <<9, 8>>

Rect(x1, y1, x2, y2) == [x1 |-> x1, y1 |-> y1, x2 |-> x2, y2 |-> y2]
RectSize(rect) == <<rect.x2 - rect.x1, rect.y2 - rect.y1>>

crop_to_aspect_ratio_LeftAligned(target_aspect_ratio, width, height) ==
  IF width * target_aspect_ratio[2] > target_aspect_ratio[1] * height
  THEN LET target_width == (height * target_aspect_ratio[1]) \div target_aspect_ratio[2]
       IN  Rect(0, 0, target_width, height)
  ELSE IF width * target_aspect_ratio[2] < target_aspect_ratio[1] * height
  THEN LET target_height == (width * target_aspect_ratio[2]) \div target_aspect_ratio[1]
       IN  Rect(0, 0, width, target_height)
  ELSE Rect(0, 0, width, height)

crop_to_aspect_ratio_Inverted(target_aspect_ratio, width, height) ==
  IF width * target_aspect_ratio[2] > target_aspect_ratio[1] * height
  THEN LET target_width == (height * target_aspect_ratio[2]) \div target_aspect_ratio[1]
           crop_x == (width - target_width) \div 2
       IN  Rect(crop_x, 0, crop_x + target_width, height)
  ELSE IF width * target_aspect_ratio[2] < target_aspect_ratio[1] * height
  THEN LET target_height == (width * target_aspect_ratio[1]) \div target_aspect_ratio[2]
           crop_y == (height - target_height) \div 2
       IN  Rect(0, crop_y, width, crop_y + target_height)
  ELSE Rect(0, 0, width, height)

crop_to_aspect_ratio_EvenSize(target_aspect_ratio, width, height) ==
  IF width * target_aspect_ratio[2] > target_aspect_ratio[1] * height
  THEN LET target_width == (height * target_aspect_ratio[1]) \div target_aspect_ratio[2]
           crop_x == (width - target_width) \div 2
       IN  Rect(crop_x, 0, crop_x + target_width, height)
  ELSE IF width * target_aspect_ratio[2] < target_aspect_ratio[1] * height
  THEN LET target_height == (width * target_aspect_ratio[2]) \div target_aspect_ratio[1]
           crop_y == (height - target_height) \div 2
       IN  Rect(0, crop_y, width, crop_y + target_height)
  ELSE Rect(0, 0, 2 * (width \div 2), 2 * (height \div 2))

\* the rectangle _crop_to_aspect_ratio crops the video to
crop_to_aspect_ratio_Ceiling(target_aspect_ratio, width, height) ==
  IF width * target_aspect_ratio[2] > target_aspect_ratio[1] * height
  THEN LET target_width == 0 - ((0 - height * target_aspect_ratio[1])
                                  \div target_aspect_ratio[2])
           crop_x == (width - target_width) \div 2
       IN  Rect(crop_x, 0, crop_x + target_width, height)
  ELSE IF width * target_aspect_ratio[2] < target_aspect_ratio[1] * height
  THEN LET target_height == 0 - ((0 - width * target_aspect_ratio[2])
                                   \div target_aspect_ratio[1])
           crop_y == (height - target_height) \div 2
       IN  Rect(0, crop_y, width, crop_y + target_height)
  ELSE Rect(0, 0, width, height)

crop_to_aspect_ratio(target_aspect_ratio, width, height) ==
  IF width * target_aspect_ratio[2] > target_aspect_ratio[1] * height
  THEN LET target_width == (height * target_aspect_ratio[1]) \div target_aspect_ratio[2]
           crop_x == (width - target_width) \div 2
       IN  Rect(crop_x, 0, crop_x + target_width, height)
  ELSE IF width * target_aspect_ratio[2] < target_aspect_ratio[1] * height
  THEN LET target_height == (width * target_aspect_ratio[2]) \div target_aspect_ratio[1]
           crop_y == (height - target_height) \div 2
       IN  Rect(0, crop_y, width, crop_y + target_height)
  ELSE Rect(0, 0, width, height)

\* a clip of the final frame: which video, its crop and its size
Pane(clip, crop, size) == [clip |-> clip, crop |-> crop, size |-> size]

process_main_video_full_Split(size) ==
  LET crop == crop_to_aspect_ratio(SplitRatio, size[1], size[2])
  IN  Pane("main", crop, RectSize(crop))

process_main_video_full(size) ==
  LET crop == crop_to_aspect_ratio(FullRatio, size[1], size[2])
  IN  Pane("main", crop, RectSize(crop))

process_main_video_split(size) ==
  LET crop == crop_to_aspect_ratio(SplitRatio, size[1], size[2])
  IN  Pane("main", crop, RectSize(crop))

\* max(0, additional_video.duration - duration)
MaxStart(video_duration, duration) ==
  IF video_duration - duration > 0 THEN video_duration - duration ELSE 0

get_random_additional_video_NoResize(duration, target_size, size, start) ==
  LET crop == crop_to_aspect_ratio(SplitRatio, size[1], size[2])
  IN  Pane("additional", crop, RectSize(crop))
        @@ [subclip |-> <<start, start + duration>>]

\* the auxiliary pane, for the chosen video's size and the offset drawn
get_random_additional_video(duration, target_size, size, start) ==
  LET crop == crop_to_aspect_ratio(SplitRatio, size[1], size[2])
  IN  Pane("additional", crop, target_size)
        @@ [subclip |-> <<start, start + duration>>]

\* clips_array([[top], [bottom]]): one column, the rows below each other
clips_array(top, bottom) ==
  LET width == IF top.size[1] > bottom.size[1] THEN top.size[1] ELSE bottom.size[1]
  IN  [panes |-> <<top @@ [at |-> <<0, 0>>], bottom @@ [at |-> <<0, top.size[2]>>]>>,
       size |-> <<width, top.size[2] + bottom.size[2]>>]

----------------------------------------------------------------------------
(* Specification of the layout of one clip: the branch of process_video on *)
(* use_additional_video.  Durations are whole seconds.                     *)

MaxDim == 18
MaxDuration == 3

FrameSizes ==
  ((1..MaxDim) \X (1..MaxDim))
    \cup {<<1920, 1080>>, <<1080, 1920>>, <<1280, 720>>, <<607, 1080>>}
AdditionalSizes == {<<1920, 1080>>, <<720, 1280>>, <<9, 8>>, <<5, 3>>}

InitLayout ==
  /\ pc = "compose"
  /\ main_size \in FrameSizes
  /\ use_additional_video \in BOOLEAN
  /\ IF use_additional_video
     THEN /\ additional_size \in AdditionalSizes
          /\ additional_duration \in 1..MaxDuration
          /\ clip_duration \in 1..MaxDuration
     ELSE /\ additional_size = <<0, 0>>
          /\ additional_duration = 0
          /\ clip_duration = 0
  /\ random_start = 0
  /\ final_video = [panes |-> <<>>, size |-> <<0, 0>>]
  /\ original_transcription = <<>>
  /\ highlight = <<>>
  /\ fixed = NoResult
  /\ reply = NoReply
  /\ outcome = NoOutcome
  /\ RunIdle
  /\ CaptionsIdle
  /\ OutputIdle

ComposeFrame ==
  /\ pc = "compose"
  /\ IF use_additional_video
     THEN \E start \in 0..MaxStart(additional_duration, clip_duration) :
            LET main_processed == process_main_video_split(main_size)
                additional_processed ==
                  get_random_additional_video(clip_duration, main_processed.size,
                                              additional_size, start)
            IN  /\ random_start' = start
                /\ final_video' = clips_array(additional_processed, main_processed)
     ELSE LET main_processed == process_main_video_full(main_size)
          IN  /\ final_video' = [panes |-> <<main_processed @@ [at |-> <<0, 0>>]>>,
                                 size |-> main_processed.size]
              /\ UNCHANGED random_start
  /\ pc' = "composed"
  /\ UNCHANGED <<use_additional_video, main_size, additional_size,
                 additional_duration, clip_duration, captionVars, outputVars,
                 original_transcription, fixVars, reply, outcome, runVars>>

NextLayout == ComposeFrame

SpecLayout == InitLayout /\ [][NextLayout]_vars

Composed == pc = "composed"
\* the size of the video a pane was cropped from, and the ratio asked of it
PaneSource(pane) == IF pane.clip = "main" THEN main_size ELSE additional_size
PaneRatio(pane) ==
  IF pane.clip = "main" /\ ~use_additional_video THEN FullRatio ELSE SplitRatio
PanesOf(video) == {video.panes[k] : k \in 1..Len(video.panes)}
Wider(size, ratio) == size[1] * ratio[2] > ratio[1] * size[2]
Taller(size, ratio) == size[1] * ratio[2] < ratio[1] * size[2]
Abs(n) == IF n < 0 THEN 0 - n ELSE n

\* C15: a frame wider than the target loses only width, down to
\* floor(height * target), centred with floor division: x1 = (width -
\* target_width) // 2, x2 = x1 + target_width, y1 = 0, y2 = height; a frame
\* taller than the target loses only height, down to floor(width / target):
\* y1 = (height - target_height) // 2, x1 = 0, x2 = width.  1920x1080 cropped
\* to 9/16 is 607 wide, from x1 = 656 to x2 = 1263, y1 = 0 to y2 = 1080.
C15_CentredCrop ==
  Composed =>
    /\ \A pane \in PanesOf(final_video) :
         LET width == PaneSource(pane)[1]
             height == PaneSource(pane)[2]
             ratio == PaneRatio(pane)
             target_width == (height * ratio[1]) \div ratio[2]
             target_height == (width * ratio[2]) \div ratio[1]
         IN  /\ Wider(PaneSource(pane), ratio) =>
                  /\ pane.crop.x1 = (width - target_width) \div 2
                  /\ pane.crop.x2 = pane.crop.x1 + target_width
                  /\ pane.crop.y1 = 0
                  /\ pane.crop.y2 = height
             /\ Taller(PaneSource(pane), ratio) =>
                  /\ pane.crop.y1 = (height - target_height) \div 2
                  /\ pane.crop.y2 = pane.crop.y1 + target_height
                  /\ pane.crop.x1 = 0
                  /\ pane.crop.x2 = width
    /\ (main_size = <<1920, 1080>> /\ ~use_additional_video) =>
         /\ final_video.panes[1].crop = Rect(656, 0, 1263, 1080)
         /\ final_video.panes[1].size = <<607, 1080>>

\* 1920x1080 cropped to 9/16 for the full layout
C15_Witness ==
  /\ Composed
  /\ main_size = <<1920, 1080>>
  /\ ~use_additional_video
  /\ final_video.panes[1].crop.x1 = 656

\* size (w, h) has the ratio within integer rounding: w is less than a pixel
\* from h * ratio, or h is less than a pixel from w / ratio
MatchesRatio(size, ratio) ==
  \/ Abs(size[1] * ratio[2] - size[2] * ratio[1]) < ratio[2]
  \/ Abs(size[2] * ratio[1] - size[1] * ratio[2]) < ratio[1]

\* C16: for every frame size and both targets the crop rectangle lies inside
\* the frame, 0 <= x1 <= x2 <= width and 0 <= y1 <= y2 <= height, and the
\* cropped size has the target ratio within integer rounding.
C16_CropInsideFrame ==
  Composed =>
    \A pane \in PanesOf(final_video) :
      /\ 0 <= pane.crop.x1
      /\ pane.crop.x1 <= pane.crop.x2
      /\ pane.crop.x2 <= PaneSource(pane)[1]
      /\ 0 <= pane.crop.y1
      /\ pane.crop.y1 <= pane.crop.y2
      /\ pane.crop.y2 <= PaneSource(pane)[2]
      /\ MatchesRatio(RectSize(pane.crop), PaneRatio(pane))

\* a main frame taller than 9/8 and an auxiliary frame wider than 9/8, both
\* cropped off centre by floor division
C16_Witness ==
  /\ Composed
  /\ use_additional_video
  /\ Taller(main_size, SplitRatio)
  /\ Wider(additional_size, SplitRatio)
  /\ \E pane \in PanesOf(final_video) :
       pane.clip = "main" /\ pane.crop.y1 > 0
         /\ pane.crop.y1 + pane.crop.y2 # main_size[2]
  /\ \E pane \in PanesOf(final_video) :
       pane.clip = "additional" /\ pane.crop.x1 > 0

\* C17: a frame whose width / height is exactly the target is not cropped:
\* the rectangle is (0, 0, width, height).
C17_ExactRatioUncropped ==
  Composed =>
    \A pane \in PanesOf(final_video) :
      (~Wider(PaneSource(pane), PaneRatio(pane))
         /\ ~Taller(PaneSource(pane), PaneRatio(pane))) =>
        pane.crop = Rect(0, 0, PaneSource(pane)[1], PaneSource(pane)[2])

\* a 9x16 frame in the full layout
C17_Witness ==
  /\ Composed
  /\ ~use_additional_video
  /\ main_size = <<9, 16>>
  /\ final_video.panes[1].crop = Rect(0, 0, 9, 16)

\* C18: without the auxiliary video the final frame is the single main pane,
\* 9:16 within one pixel for every source frame size; no auxiliary clip is
\* selected or stacked.
C18_FullLayout ==
  (Composed /\ ~use_additional_video) =>
    /\ Len(final_video.panes) = 1
    /\ final_video.panes[1].clip = "main"
    /\ final_video.panes[1].at = <<0, 0>>
    /\ final_video.size = final_video.panes[1].size
    /\ final_video.size = RectSize(final_video.panes[1].crop)
    /\ MatchesRatio(final_video.size, FullRatio)
    /\ random_start = 0

\* a 16:9 source rendered full: 607x1080
C18_Witness ==
  /\ Composed
  /\ ~use_additional_video
  /\ main_size = <<1920, 1080>>
  /\ final_video.size = <<607, 1080>>

\* C19: with the auxiliary video the final frame is two panes of the same
\* pixel size stacked vertically, the auxiliary pane above the main pane
\* (cropped to 9:8); the auxiliary pane is resized to the main pane's (w, h),
\* so the frame is w wide and 2h high, whatever the two source sizes.
C19_SplitLayout ==
  (Composed /\ use_additional_video) =>
    /\ Len(final_video.panes) = 2
    /\ final_video.panes[1].clip = "additional"
    /\ final_video.panes[2].clip = "main"
    /\ final_video.panes[2].crop = crop_to_aspect_ratio(SplitRatio, main_size[1], main_size[2])
    /\ final_video.panes[2].size = RectSize(final_video.panes[2].crop)
    /\ final_video.panes[1].size = final_video.panes[2].size
    /\ final_video.panes[1].at = <<0, 0>>
    /\ final_video.panes[2].at = <<0, final_video.panes[2].size[2]>>
    /\ final_video.size =
         <<final_video.panes[2].size[1], 2 * final_video.panes[2].size[2]>>

\* an auxiliary clip whose crop is not the main pane's size
C19_Witness ==
  /\ Composed
  /\ use_additional_video
  /\ main_size = <<1280, 720>>
  /\ additional_size = <<720, 1280>>
  /\ RectSize(final_video.panes[1].crop) # final_video.panes[1].size
  /\ final_video.size = <<810, 1440>>

\* C20 as stated: the offset lies in [0, max(0, auxiliary duration - target
\* duration)] and the segment cut, [offset, offset + target duration], is
\* exactly the target duration long and lies inside [0, auxiliary duration],
\* also for an auxiliary clip shorter than the target.
C20_SegmentInsideAuxiliary ==
  (Composed /\ use_additional_video) =>
    LET subclip == final_video.panes[1].subclip
    IN  /\ 0 <= random_start
        /\ random_start <= MaxStart(additional_duration, clip_duration)
        /\ subclip[1] = random_start
        /\ subclip[2] - subclip[1] = clip_duration
        /\ 0 <= subclip[1]
        /\ subclip[2] <= additional_duration

----------------------------------------------------------------------------
(* Specification of the temporary files of AudioTranscriber.transcribe_video *)
(* and YouTubeDownloader.download_video.  files is the set of the names that *)
(* exist; a write that fails may or may not leave a partial file behind.     *)

VideoFile == "video.mp4"
\* temp_dir / f"{video_path.stem}_audio.wav"
AudioWav == "video_audio.wav"
\* output_dir / f"{safe_title}_video_temp.mp4", ..._audio_temp.mp4, ....mp4
\* for the title "video": the merged file is the video the run goes on with
TempVideo == "video_video_temp.mp4"
TempAudio == "video_audio_temp.mp4"
FinalVideo == VideoFile

\* what the rest of the model leaves alone while files are handled
TempFrame ==
  UNCHANGED <<original_transcription, fixVars, reply, outcome, runVars,
              captionVars, layoutVars, add_subtitles, subtitle_position,
              text_position, now, output_filename, writes>>

InitTemp ==
  /\ \/ /\ pc = "transcribe_video"
        /\ files \in SUBSET {VideoFile, AudioWav}
     \/ /\ pc = "download_video"
        /\ files \in SUBSET {TempVideo, TempAudio, FinalVideo, AudioWav}
  /\ created = {}
  /\ add_subtitles = FALSE
  /\ subtitle_position = "bottom"
  /\ text_position = <<>>
  /\ now = 0
  /\ output_filename = <<>>
  /\ writes = <<>>
  /\ original_transcription = <<>>
  /\ highlight = <<>>
  /\ fixed = NoResult
  /\ reply = NoReply
  /\ outcome = NoOutcome
  /\ RunIdle
  /\ CaptionsIdle
  /\ LayoutIdle

\* a writer of the file name: it succeeds and the file exists, or it fails
\* and the file exists or not
WriteFile(name, ok) ==
  \/ /\ ok
     /\ files' = files \cup {name}
     /\ created' = created \cup {name}
  \/ /\ ~ok
     /\ files' = files \cup {name}
     /\ created' = created \cup {name}
  \/ /\ ~ok
     /\ UNCHANGED <<files, created>>

\* transcribe_video up to the try: a missing video raises ValueError
CheckVideo ==
  /\ pc = "transcribe_video"
  /\ pc' = IF VideoFile \in files THEN "extract_audio" ELSE "transcribe_raised_early"
  /\ UNCHANGED <<files, created>>
  /\ TempFrame

\* _extract_audio: no audio stream raises before ffmpeg runs; ffmpeg writes
\* the wav and may fail
ExtractAudio ==
  /\ pc = "extract_audio"
  /\ \/ /\ pc' = "audio_finally_raise"
        /\ UNCHANGED <<files, created>>
     \/ \E ok \in BOOLEAN :
          /\ WriteFile(AudioWav, ok)
          /\ pc' = IF ok THEN "transcribe_audio" ELSE "audio_finally_raise"
  /\ TempFrame

\* self.model.transcribe and the loop over the segments
TranscribeAudio ==
  /\ pc = "transcribe_audio"
  /\ \E ok \in BOOLEAN :
       pc' = IF ok THEN "audio_finally_return" ELSE "audio_finally_raise"
  /\ UNCHANGED <<files, created>>
  /\ TempFrame

CleanupAudio_OnSuccess ==
  /\ pc \in {"audio_finally_return", "audio_finally_raise"}
  /\ files' = IF pc = "audio_finally_return" THEN files \ {AudioWav} ELSE files
  /\ pc' = IF pc = "audio_finally_return" THEN "transcribe_returned"
           ELSE "transcribe_raised"
  /\ UNCHANGED created
  /\ TempFrame

\* the finally of transcribe_video
CleanupAudio ==
  /\ pc \in {"audio_finally_return", "audio_finally_raise"}
  /\ files' = files \ {AudioWav}
  /\ pc' = IF pc = "audio_finally_return" THEN "transcribe_returned"
           ELSE "transcribe_raised"
  /\ UNCHANGED created
  /\ TempFrame

\* download_video up to the inner try: YouTube(url), the choice of the streams
PrepareDownload ==
  /\ pc = "download_video"
  /\ \E ok \in BOOLEAN :
       pc' = IF ok THEN "download_video_stream" ELSE "download_raised_early"
  /\ UNCHANGED <<files, created>>
  /\ TempFrame

DownloadVideoStream ==
  /\ pc = "download_video_stream"
  /\ \E ok \in BOOLEAN :
       /\ WriteFile(TempVideo, ok)
       /\ pc' = IF ok THEN "download_audio_stream" ELSE "download_finally_raise"
  /\ TempFrame

DownloadAudioStream ==
  /\ pc = "download_audio_stream"
  /\ \E ok \in BOOLEAN :
       /\ WriteFile(TempAudio, ok)
       /\ pc' = IF ok THEN "merge_audio_video" ELSE "download_finally_raise"
  /\ TempFrame

\* _merge_audio_video writes the final file
MergeAudioVideo ==
  /\ pc = "merge_audio_video"
  /\ \E ok \in BOOLEAN :
       /\ WriteFile(FinalVideo, ok)
       /\ pc' = IF ok THEN "download_finally_return" ELSE "download_finally_raise"
  /\ TempFrame

\* the finally of download_video
CleanupDownload ==
  /\ pc \in {"download_finally_return", "download_finally_raise"}
  /\ files' = (files \ {TempVideo}) \ {TempAudio}
  /\ pc' = IF pc = "download_finally_return" THEN "download_returned"
           ELSE "download_raised"
  /\ UNCHANGED created
  /\ TempFrame

\* main: the video that get_video_path downloaded is transcribed next
TranscribeDownloaded ==
  /\ pc = "download_returned"
  /\ pc' = "transcribe_video"
  /\ UNCHANGED <<files, created>>
  /\ TempFrame

NextTemp ==
  \/ TranscribeDownloaded
  \/ CheckVideo
  \/ ExtractAudio
  \/ TranscribeAudio
  \/ CleanupAudio
  \/ PrepareDownload
  \/ DownloadVideoStream
  \/ DownloadAudioStream
  \/ MergeAudioVideo
  \/ CleanupDownload

SpecTemp == InitTemp /\ [][NextTemp]_vars

TemporaryFiles == {AudioWav, TempVideo, TempAudio}

\* C21: temporary files never outlive the operation that created them: once
\* transcribe_video has returned or raised out of its try, the extracted wav
\* does not exist; once download_video has returned or raised out of its
\* try, neither temporary stream file exists; and no temporary file that an
\* operation wrote exists after the operation, however it ended.
C21_TemporariesRemoved ==
  /\ pc \in {"transcribe_returned", "transcribe_raised"} => AudioWav \notin files
  /\ pc \in {"download_returned", "download_raised"} =>
       TempVideo \notin files /\ TempAudio \notin files
  /\ (pc = "download_returned" /\ FinalVideo \in created) => FinalVideo \in files
  /\ pc \in {"transcribe_returned", "transcribe_raised", "transcribe_raised_early",
             "download_returned", "download_raised", "download_raised_early"} =>
       created \cap TemporaryFiles \cap files = {}

\* the merge failed after both streams were written, and both are gone
C21_Witness ==
  /\ pc = "download_raised"
  /\ {TempVideo, TempAudio} \subseteq created
  /\ TempVideo \notin files
  /\ TempAudio \notin files

\* the transcription failed after the wav was extracted, and the wav is gone
C21_WitnessAudio ==
  /\ pc = "transcribe_raised"
  /\ AudioWav \in created
  /\ AudioWav \notin files

----------------------------------------------------------------------------
(* Specification of the caption position: add_subtitles on a composed      *)
(* frame.  The paddings are fractions <<numerator, denominator>>; on the   *)
(* heights of a video int(height * padding) in floats is the floor of the  *)
(* exact product.                                                          *)

TIKTOK_TOP_PADDING == <<15, 100>>
TIKTOK_BOTTOM_PADDING == <<20, 100>>
TIKTOK_CENTER_PADDING == <<10, 100>>

calculate_subtitle_position_Middle(video_height, position) ==
  IF position = "top"
  THEN <<"center", (video_height * TIKTOK_TOP_PADDING[1]) \div TIKTOK_TOP_PADDING[2]>>
  ELSE IF position = "center"
  THEN <<"center", video_height \div 2>>
  ELSE <<"center",
         (video_height * (TIKTOK_BOTTOM_PADDING[2] - TIKTOK_BOTTOM_PADDING[1]))
           \div TIKTOK_BOTTOM_PADDING[2]>>

\* the (x, y) _calculate_subtitle_position returns
calculate_subtitle_position(video_height, position) ==
  IF position = "top"
  THEN <<"center", (video_height * TIKTOK_TOP_PADDING[1]) \div TIKTOK_TOP_PADDING[2]>>
  ELSE IF position = "center"
  THEN LET center == video_height \div 2
       IN  <<"center",
             (center * (TIKTOK_CENTER_PADDING[2] - TIKTOK_CENTER_PADDING[1]))
               \div TIKTOK_CENTER_PADDING[2]>>
  ELSE <<"center",
         (video_height * (TIKTOK_BOTTOM_PADDING[2] - TIKTOK_BOTTOM_PADDING[1]))
           \div TIKTOK_BOTTOM_PADDING[2]>>

MaxHeight == 48

Positions == {"top", "center", "bottom"}
FrameHeights == (1..MaxHeight) \cup {720, 1080, 1920}

InitPosition ==
  /\ pc = "add_subtitles"
  /\ \E height \in FrameHeights :
       final_video = [panes |-> <<>>, size |-> <<9, height>>]
  /\ subtitle_position \in Positions
  /\ add_subtitles = TRUE
  /\ text_position = <<>>
  /\ files = {}
  /\ created = {}
  /\ now = 0
  /\ output_filename = <<>>
  /\ writes = <<>>
  /\ use_additional_video = FALSE
  /\ main_size = <<0, 0>>
  /\ additional_size = <<0, 0>>
  /\ additional_duration = 0
  /\ clip_duration = 0
  /\ random_start = 0
  /\ original_transcription = <<>>
  /\ highlight = <<>>
  /\ fixed = NoResult
  /\ reply = NoReply
  /\ outcome = NoOutcome
  /\ RunIdle
  /\ CaptionsIdle

\* add_subtitles: the position of every text clip on the frame
AddSubtitles ==
  /\ pc = "add_subtitles"
  /\ text_position' = calculate_subtitle_position(final_video.size[2], subtitle_position)
  /\ pc' = "subtitles_added"
  /\ UNCHANGED <<original_transcription, fixVars, reply, outcome, runVars,
                 captionVars, layoutVars, files, created, add_subtitles,
                 subtitle_position, now, output_filename, writes>>

NextPosition == AddSubtitles

SpecPosition == InitPosition /\ [][NextPosition]_vars

\* floor(n / d), by its definition
Floor(n, d) == CHOOSE y \in 0..n : y * d <= n /\ n < (y + 1) * d
TopY(height) == Floor(15 * height, 100)
BottomY(height) == Floor(80 * height, 100)
\* floor(m - 0.10 * m) for m = height // 2
CenterY(height) == Floor(9 * Floor(height, 2), 10)

\* C22: the horizontal placement is 'center' and the vertical coordinate is
\* floor(0.15 * height) for top, floor(0.80 * height) for bottom and
\* floor(m - 0.10 * m), m = height // 2, for center; for every height >= 20
\* the three satisfy 0 < top < center < bottom < height.
C22_SubtitlePosition ==
  pc = "subtitles_added" =>
    LET height == final_video.size[2]
    IN  /\ text_position[1] = "center"
        /\ subtitle_position = "top" => text_position[2] = TopY(height)
        /\ subtitle_position = "bottom" => text_position[2] = BottomY(height)
        /\ subtitle_position = "center" => text_position[2] = CenterY(height)
        /\ height >= 20 =>
             /\ 0 < TopY(height)
             /\ TopY(height) < CenterY(height)
             /\ CenterY(height) < BottomY(height)
             /\ BottomY(height) < height

\* centred captions on a frame 1920 pixels high: y = 864
C22_Witness ==
  /\ pc = "subtitles_added"
  /\ final_video.size[2] = 1920
  /\ subtitle_position = "center"
  /\ text_position = <<"center", 864>>

----------------------------------------------------------------------------
(* Claims about the order of the run, checked under SpecRun *)

\* the highlights as reconciliation left them
Reconciled == get_highlights(reply, original_transcription).highlights
Rendering == pc = "process_highlights" \/ EventsOf("render") # {}

C23_State ==
  /\ Rendering =>
       /\ outcome.err = "none"
       /\ highlights = Reconciled
       /\ \E r \in EventsOf("request") : \A i \in EventsOf("render") : r < i
  /\ (pc = "exited" /\ exit_code = 0) => highlights = Reconciled

C23_Step ==
  /\ Len(SelectSeq(events', LAMBDA e : e.op = "render")) <= Len(RenderEvents) + 1
  /\ Len(RenderEvents) < Len(SelectSeq(events', LAMBDA e : e.op = "render")) =>
       /\ pc = "process_highlights"
       /\ \A i \in 1..Len(RenderEvents) : RenderEvents[i].arg < idx
       /\ idx' = idx + 1
  /\ Rendering => highlights' = highlights

\* C23: the pipeline is strictly sequential: the first render starts only
\* after every highlight of the batch was reconciled, renders happen one at
\* a time, each after all the renders before it, and no render changes a
\* highlight: start, end and content stay what reconciliation made them.
C23_Sequential == [](C23_State) /\ [][C23_Step]_vars

\* two highlights, both moved by reconciliation, rendered one after the other
C23_Witness ==
  /\ pc = "exited"
  /\ exit_code = 0
  /\ Len(highlights) = 2
  /\ Len(RenderEvents) = 2
  /\ highlights = Reconciled
  /\ highlights[1].start # 37
  /\ highlights[2].end # 141

\* C25 as stated: every highlight handed to process_video has end > start; a
\* highlight whose reconciled end is not greater than its reconciled start is
\* rejected by the caller and never rendered.
C25_OnlyForwardHighlightsRendered ==
  \A i \in EventsOf("render") :
    highlights[events[i].arg].end > highlights[events[i].arg].start

----------------------------------------------------------------------------
(* Specification of the output files: the loop of process_highlights with  *)
(* process_video in steps (compose, name the output, write the video,      *)
(* write the captions).  The clock counts whole seconds; a step during     *)
(* which it does not move took less than the rest of the second.           *)

MaxElapsed == 1

\* f"output/{base_name}_highlight_{current_datetime}.mp4", by its parts
OutputName(base_name, current_datetime) ==
  [base |-> base_name, stamp |-> current_datetime, suffix |-> ".mp4"]
\* output_filename.rsplit('.', 1)[0] + '_subtitles.json'
SubtitlesName(name) == [name EXCEPT !.suffix = "_subtitles.json"]

\* two highlights of the video, as process_highlights receives them
RenderWindows ==
  { [start |-> <<0, 1>>, end |-> <<3, 1>>, content |-> <<"a", ".">>],
    [start |-> <<1, 1>>, end |-> <<5, 2>>, content |-> <<"b", ".">>] }
RenderQueues == {q \in SeqsUpTo(RenderWindows, MaxHighlights) : q # <<>>}
\* the speech of the video: five words from 0.5 s to 2.5 s
RenderSegments ==
  <<[start |-> <<1, 2>>, end |-> <<5, 2>>, text |-> Join(CaptionWords(5))]>>

InitRender ==
  /\ pc = "process_highlights"
  /\ highlights \in RenderQueues
  /\ idx = 1
  /\ add_subtitles \in BOOLEAN
  /\ subtitle_position = "bottom"
  /\ segments = RenderSegments
  /\ main_size = <<1920, 1080>>
  /\ use_additional_video = FALSE
  /\ additional_size = <<0, 0>>
  /\ additional_duration = 0
  /\ clip_duration = 0
  /\ random_start = 0
  /\ final_video = [panes |-> <<>>, size |-> <<0, 0>>]
  /\ subtitles = <<>>
  /\ trimmed_subtitles = <<>>
  /\ start_time = <<0, 1>>
  /\ end_time = <<0, 1>>
  /\ text_position = <<>>
  /\ now = 0
  /\ output_filename = <<>>
  /\ writes = <<>>
  /\ files = {}
  /\ created = {}
  /\ api_key = TRUE
  /\ download = FALSE
  /\ events = <<>>
  /\ errors = {}
  /\ exit_code = -1
  /\ original_transcription = <<>>
  /\ highlight = <<>>
  /\ fixed = NoResult
  /\ reply = NoReply
  /\ outcome = NoOutcome

\* the list subtitles after the trimming: the kept chunks are the same
\* objects in both lists, so their times are relative to t0 in this one too
SubtitlesAfterTrim(short_subtitles, t0, t1) ==
  [k \in 1..Len(short_subtitles) |->
     IF InWindow(short_subtitles[k], t0, t1)
     THEN [start |-> FSub(short_subtitles[k].start, t0),
           end |-> FSub(short_subtitles[k].end, t0),
           text |-> short_subtitles[k].text]
     ELSE short_subtitles[k]]

\* what no step of a render changes
RenderFrame ==
  UNCHANGED <<original_transcription, fixVars, reply, outcome, api_key, download,
              exit_code, highlights, segments, use_additional_video, main_size,
              additional_size, additional_duration, clip_duration, random_start,
              created, add_subtitles, subtitle_position>>

\* process_video returns, or raises into the except of process_highlights,
\* and the loop goes on with the next highlight
EndRender(ok) ==
  /\ events' = Append(events, Event("render", idx, ok))
  /\ errors' = IF ok THEN errors ELSE errors \cup {"render"}
  /\ idx' = idx + 1
  /\ pc' = "process_highlights"

\* process_video up to the composed frame: the clip, its captions, its layout
ComposeClip ==
  /\ pc = "process_highlights"
  /\ idx <= Len(highlights)
  /\ now' \in now..(now + MaxElapsed)
  /\ \/ /\ EndRender(FALSE)
        /\ UNCHANGED <<subtitles, trimmed_subtitles, start_time, end_time,
                       final_video, text_position>>
     \/ LET main_processed == process_main_video_full(main_size)
            short_subtitles == extract_subtitles(segments)
            trimmed == TrimSubtitles(short_subtitles, highlights[idx].start,
                                     highlights[idx].end)
        IN  /\ start_time' = highlights[idx].start
            /\ end_time' = highlights[idx].end
            /\ IF add_subtitles
               THEN /\ subtitles' = SubtitlesAfterTrim(short_subtitles,
                                                        highlights[idx].start,
                                                        highlights[idx].end)
                    /\ trimmed_subtitles' = trimmed
                    /\ text_position' =
                         calculate_subtitle_position(main_processed.size[2],
                                                     subtitle_position)
                    /\ final_video' = [panes |-> <<main_processed @@ [at |-> <<0, 0>>]>>,
                                       size |-> main_processed.size,
                                       subtitles |-> trimmed]
               ELSE /\ subtitles' = <<>>
                    /\ trimmed_subtitles' = <<>>
                    /\ text_position' = <<>>
                    /\ final_video' = [panes |-> <<main_processed @@ [at |-> <<0, 0>>]>>,
                                       size |-> main_processed.size,
                                       subtitles |-> <<>>]
            /\ pc' = "generate_output_filename"
            /\ UNCHANGED <<events, errors, idx>>
  /\ UNCHANGED <<files, output_filename, writes>>
  /\ RenderFrame

\* _generate_output_filename: the base name and the clock, to the second
GenerateOutputFilename ==
  /\ pc = "generate_output_filename"
  /\ output_filename' = OutputName("video", now)
  /\ pc' = "write_videofile"
  /\ UNCHANGED <<events, errors, idx, subtitles, trimmed_subtitles, start_time,
                 end_time, final_video, text_position, now, files, writes>>
  /\ RenderFrame

\* final_video.write_videofile(output_filename), which may fail and leave a
\* part of the file; without captions process_video returns after it.
\* writes is the history of the files written to the end.
WriteVideoFile ==
  /\ pc = "write_videofile"
  /\ now' \in now..(now + MaxElapsed)
  /\ \/ /\ EndRender(FALSE)
        /\ files' \in {files, files \cup {output_filename}}
        /\ UNCHANGED writes
     \/ /\ writes' = Append(writes, [name |-> output_filename, highlight |-> idx,
                                     content |-> final_video])
        /\ files' = files \cup {output_filename}
        /\ IF add_subtitles
           THEN /\ pc' = "write_subtitles"
                /\ UNCHANGED <<events, errors, idx>>
           ELSE EndRender(TRUE)
  /\ UNCHANGED <<subtitles, trimmed_subtitles, start_time, end_time, final_video,
                 text_position, output_filename>>
  /\ RenderFrame

WriteSubtitles_AllChunks ==
  /\ pc = "write_subtitles"
  /\ \/ /\ EndRender(FALSE)
        /\ files' \in {files, files \cup {SubtitlesName(output_filename)}}
        /\ UNCHANGED writes
     \/ /\ writes' = Append(writes, [name |-> SubtitlesName(output_filename),
                                     highlight |-> idx,
                                     content |-> subtitles])
        /\ files' = files \cup {SubtitlesName(output_filename)}
        /\ EndRender(TRUE)
  /\ UNCHANGED <<subtitles, trimmed_subtitles, start_time, end_time, final_video,
                 text_position, output_filename, now>>
  /\ RenderFrame

\* json.dump(trimmed_subtitles, f) into the file next to the video, then
\* process_video returns
WriteSubtitles ==
  /\ pc = "write_subtitles"
  /\ \/ /\ EndRender(FALSE)
        /\ files' \in {files, files \cup {SubtitlesName(output_filename)}}
        /\ UNCHANGED writes
     \/ /\ writes' = Append(writes, [name |-> SubtitlesName(output_filename),
                                     highlight |-> idx,
                                     content |-> trimmed_subtitles])
        /\ files' = files \cup {SubtitlesName(output_filename)}
        /\ EndRender(TRUE)
  /\ UNCHANGED <<subtitles, trimmed_subtitles, start_time, end_time, final_video,
                 text_position, output_filename, now>>
  /\ RenderFrame

NextRender ==
  \/ ComposeClip
  \/ GenerateOutputFilename
  \/ WriteVideoFile
  \/ WriteSubtitles
  \/ FinishRun

SpecRender == InitRender /\ [][NextRender]_vars

\* the writes of caption files, and of video files, by their place in writes
SidecarWrites == {i \in 1..Len(writes) : writes[i].name.suffix = "_subtitles.json"}
VideoWrites == {i \in 1..Len(writes) : writes[i].name.suffix = ".mp4"}
\* the renders that process_video returned from
CompletedRenders == {events[i].arg : i \in {j \in EventsOf("render") : events[j].ok}}

\* C24: a caption file is written directly after the video file of the same
\* render was written to the end, under the name of that video with
\* "_subtitles.json" for ".mp4", and holds exactly the chunks burned into
\* that video, which are the chunks of the window with times relative to its
\* start; every completed render with captions has its caption file; a run
\* with captions disabled writes no caption file.
C24_SidecarAfterVideo ==
  /\ \A i \in SidecarWrites :
       /\ add_subtitles
       /\ i > 1
       /\ (i - 1) \in VideoWrites
       /\ writes[i - 1].highlight = writes[i].highlight
       /\ writes[i].name = SubtitlesName(writes[i - 1].name)
       /\ writes[i].content = writes[i - 1].content.subtitles
       /\ writes[i].content =
            TrimSubtitles(extract_subtitles(segments),
                          highlights[writes[i].highlight].start,
                          highlights[writes[i].highlight].end)
  /\ \A h \in CompletedRenders :
       add_subtitles =>
         \E i \in SidecarWrites : writes[i].highlight = h
  /\ ~add_subtitles =>
       /\ SidecarWrites = {}
       /\ \A name \in files : name.suffix = ".mp4"

\* a second render with captions completed, its caption file holds one chunk
\* of the two of the video
C24_Witness ==
  /\ add_subtitles
  /\ 2 \in CompletedRenders
  /\ \E i \in SidecarWrites :
       /\ writes[i].highlight = 2
       /\ Len(writes[i].content) = 1
       /\ Len(subtitles) = 2

\* a run without captions completed a render and wrote its video only
C24_WitnessDisabled ==
  /\ ~add_subtitles
  /\ CompletedRenders # {}
  /\ VideoWrites # {}

\* C26: no two highlights of one run are written to the same output file
C26_DistinctOutputNames ==
  \A i, j \in VideoWrites :
    writes[i].highlight # writes[j].highlight => writes[i].name # writes[j].name

----------------------------------------------------------------------------
(* Specification of repeated cropping: a video is cropped to the ratio of  *)
(* its layout, and the result is cropped again to the same ratio           *)

MaxCrops == 2

InitCrop ==
  /\ pc = "crop"
  /\ main_size \in FrameSizes
  /\ use_additional_video \in BOOLEAN
  /\ additional_size = <<0, 0>>
  /\ additional_duration = 0
  /\ clip_duration = 0
  /\ random_start = 0
  /\ final_video = [panes |-> <<>>, size |-> main_size]
  /\ original_transcription = <<>>
  /\ highlight = <<>>
  /\ fixed = NoResult
  /\ reply = NoReply
  /\ outcome = NoOutcome
  /\ RunIdle
  /\ CaptionsIdle
  /\ OutputIdle

CropFrame ==
  UNCHANGED <<use_additional_video, main_size, additional_size,
              additional_duration, clip_duration, random_start, captionVars,
              outputVars, original_transcription, fixVars, reply, outcome,
              runVars>>

\* _process_main_video_full or _process_main_video_split of the video as it
\* is now: width, height = video.size, then _crop_to_aspect_ratio
CropVideo ==
  /\ pc = "crop"
  /\ Len(final_video.panes) < MaxCrops
  /\ final_video.size[2] > 0
  /\ LET cropped == IF use_additional_video
                    THEN process_main_video_split(final_video.size)
                    ELSE process_main_video_full(final_video.size)
     IN  final_video' = [panes |-> Append(final_video.panes, cropped),
                         size |-> cropped.size]
  /\ pc' = "crop"
  /\ CropFrame

\* input_aspect_ratio = width / height raises ZeroDivisionError for a video
\* without rows
CropRaises ==
  /\ pc = "crop"
  /\ Len(final_video.panes) < MaxCrops
  /\ final_video.size[2] = 0
  /\ pc' = "raised"
  /\ UNCHANGED final_video
  /\ CropFrame

NextCrop == CropVideo \/ CropRaises

SpecCrop == InitCrop /\ [][NextCrop]_vars

\* the ratio of the layout, and the size the k-th crop was applied to
CropRatio == IF use_additional_video THEN SplitRatio ELSE FullRatio
CropInput(k) == IF k = 1 THEN main_size ELSE final_video.panes[k - 1].size
ExactRatio(size, ratio) == size[1] * ratio[2] = ratio[1] * size[2]

\* C27 as stated: a second crop with the same target leaves the size of the
\* first crop unchanged
C27_CropIdempotent ==
  \A k \in 2..Len(final_video.panes) :
    final_video.panes[k].size = final_video.panes[k - 1].size

\* C27 amended: a second crop with the same target leaves the size of the
\* first crop unchanged exactly when that size has the target ratio exactly;
\* otherwise the first crop, rounded down, left the frame on the other side
\* of the target, and the second crop keeps the dimension the first one cut
\* and takes one or two pixels off the other one
C27_CropIdempotentOnExactRatio ==
  \A k \in 2..Len(final_video.panes) :
    LET source == CropInput(k - 1)
        first == final_video.panes[k - 1].size
        second == final_video.panes[k].size
    IN  /\ ExactRatio(first, CropRatio) <=> second = first
        /\ ~ExactRatio(first, CropRatio) =>
             /\ Wider(source, CropRatio) =>
                  /\ second[1] = first[1]
                  /\ first[2] - second[2] \in 1..2
             /\ Taller(source, CropRatio) =>
                  /\ second[2] = first[2]
                  /\ first[1] - second[1] \in 1..2
             /\ ~ExactRatio(source, CropRatio)

\* 1920x1080 cropped to 9/16 is 607x1080, cropped again it is 607x1079
C27_Witness ==
  /\ main_size = <<1920, 1080>>
  /\ ~use_additional_video
  /\ Len(final_video.panes) = 2
  /\ final_video.panes[1].size = <<607, 1080>>
  /\ final_video.panes[2].size = <<607, 1079>>

\* 1920x1080 cropped to 9/8 is 1215x1080, which a second crop leaves alone
C27_WitnessExact ==
  /\ main_size = <<1920, 1080>>
  /\ use_additional_video
  /\ Len(final_video.panes) = 2
  /\ final_video.panes[1].size = <<1215, 1080>>
  /\ final_video.panes[2].size = <<1215, 1080>>

====
